---- MODULE Spec2Model ----
(***************************************************************************)
(* ReportMaster: thread reconstruction (ThreadBuilder), category           *)
(* assignment (Categorizer) over the GigaChat classifier adapter with its  *)
(* sticky circuit breaker, the runs (web jobs, desktop runs) that own or   *)
(* share an adapter, the JobManager's job states, keyword extraction, and  *)
(* the section numbers of the report and of the attachment folders.        *)
(*                                                                         *)
(* Strings are sequences of one-character strings.  Dates are day numbers  *)
(* (naive datetimes, mutually comparable and comparable with datetime.min);*)
(* <<>> stands for Python's None.                                         *)
(***************************************************************************)
EXTENDS Integers, Sequences, FiniteSets, TLC

VARIABLES
    \* ---- subject normalizer harness
    subj,            \* the subject string under construction
    norm1,           \* _normalize_subject(subj)
    norm2,           \* _normalize_subject(norm1)
    npc,             \* "input" | "once" | "twice"
    \* ---- ThreadBuilder
    similarity_threshold,   \* ThreadBuilder.similarity_threshold, in percent
    max_gap_days,           \* ThreadBuilder.max_gap_days
    messages,               \* the argument of build_threads
    clusters,               \* the participant_groups build_threads went through
    threads,                \* the list build_threads returned
    tpc,                    \* "input" | "built"
    \* ---- Categorizer over one GigaChatAPIClient
    ai_enabled,             \* Categorizer.ai_enabled
    client,                 \* GigaChatAPIClient.client is not None
    cthreads,               \* the argument of categorize_threads
    cidx,                   \* number of threads the loop has processed
    categories,             \* the local list `categories`
    categories_by_name,     \* the local dict: normalized key -> index in categories
    category_counter,       \* the local category_counter
    calls,                  \* per processed thread: what happened (history)
    cpc,                    \* "input" | "loop" | "done"
    \* ---- runs and their adapters
    adapters,               \* per adapter instance: client is not None
    runs,                   \* the runs started so far
    app_run,                \* the desktop run in progress (0: none)
    \* ---- repeated executions of the pipeline
    script,                 \* what the k-th call of _chat_completion does
    outputs,                \* what the finished executions returned
    \* ---- one EmailThread
    email_thread,           \* an EmailThread that add_message is called on
    \* ---- JobManager
    jobs,                   \* JobManager.jobs: job id -> JobState
    jpc,                    \* per job: where create_job / _run_job stands
    uploads,                \* per job: what was uploaded and what its stages do
    work_queue,             \* the executor's queue of submitted jobs
    \* ---- report sections and attachment folders
    report_categories,      \* the categories handed to the generators
    summaries,              \* the dict summarize_categories returned
    headings,               \* the subsection headings of the report
    attachment_folders,     \* the folders under Attachments/ and their files
    att_stats,              \* the stats dict of save_attachments
    saves,                  \* per _save_attachment call: what happened (history)
    gpc,                    \* where the generators stand
    \* ---- keyword extraction
    kw_bodies,              \* the message bodies of the thread
    kw_result,              \* what _extract_keywords returned
    kpc                     \* "input" | "done"

vars == <<subj, norm1, norm2, npc,
          similarity_threshold, max_gap_days, messages, clusters, threads, tpc,
          ai_enabled, client, cthreads, cidx, categories, categories_by_name,
          category_counter, calls, cpc,
          adapters, runs, app_run,
          script, outputs,
          email_thread,
          jobs, jpc, uploads, work_queue,
          report_categories, summaries, headings, attachment_folders, att_stats,
          saves, gpc,
          kw_bodies, kw_result, kpc>>

normVars == <<subj, norm1, norm2, npc>>
tbVars   == <<similarity_threshold, max_gap_days, messages, clusters, threads, tpc>>
catVars  == <<ai_enabled, client, cthreads, cidx, categories, categories_by_name,
              category_counter, calls, cpc>>
runVars  == <<adapters, runs, app_run>>
pipeVars == <<script, outputs>>
etVars   == <<email_thread>>
jobVars  == <<jobs, jpc, uploads, work_queue>>
attVars  == <<report_categories, summaries, headings, attachment_folders, att_stats,
              saves, gpc>>
kwVars   == <<kw_bodies, kw_result, kpc>>

(***************************************************************************)
(* Strings                                                                 *)
(***************************************************************************)
UpperLetters == <<"A","B","C","D","E","F","G","H","I","J","K","L","M",
                  "N","O","P","Q","R","S","T","U","V","W","X","Y","Z">>
LowerLetters == <<"a","b","c","d","e","f","g","h","i","j","k","l","m",
                  "n","o","p","q","r","s","t","u","v","w","x","y","z">>

\* the letters U+0430..U+044F and U+0410..U+042F, each written as one
\* character named by its transliteration
CyrillicLower == <<"cy-a","cy-b","cy-v","cy-g","cy-d","cy-e","cy-zh","cy-z","cy-i","cy-j","cy-k","cy-l","cy-m","cy-n","cy-o","cy-p",
                   "cy-r","cy-s","cy-t","cy-u","cy-f","cy-h","cy-c","cy-ch","cy-sh","cy-shch","cy-hard","cy-y","cy-soft","cy-eh","cy-yu","cy-ya">>
CyrillicUpper == <<"CY-A","CY-B","CY-V","CY-G","CY-D","CY-E","CY-ZH","CY-Z","CY-I","CY-J","CY-K","CY-L","CY-M","CY-N","CY-O","CY-P",
                   "CY-R","CY-S","CY-T","CY-U","CY-F","CY-H","CY-C","CY-CH","CY-SH","CY-SHCH","CY-HARD","CY-Y","CY-SOFT","CY-EH","CY-YU","CY-YA">>

\* str.lower() on one character
LowerChar(c) ==
    IF \E i \in 1..Len(UpperLetters) : UpperLetters[i] = c
    THEN LowerLetters[CHOOSE i \in 1..Len(UpperLetters) : UpperLetters[i] = c]
    ELSE IF \E i \in 1..Len(CyrillicUpper) : CyrillicUpper[i] = c
    THEN CyrillicLower[CHOOSE i \in 1..Len(CyrillicUpper) : CyrillicUpper[i] = c]
    ELSE c

\* str.lower()
LowerStr(s) == [i \in 1..Len(s) |-> LowerChar(s[i])]

\* str.isspace() on one character
IsSpace(c) == c \in {" ", "\t"}

\* s[:n]
Truncate(s, n) == IF Len(s) > n THEN SubSeq(s, 1, n) ELSE s

\* s[n:] for n >= 0
DropFirst(s, n) == IF n >= Len(s) THEN <<>> ELSE SubSeq(s, n + 1, Len(s))

\* s.startswith(p)
StartsWith(s, p) == Len(s) >= Len(p) /\ SubSeq(s, 1, Len(p)) = p

\* str.split(): the maximal runs of non-whitespace characters, in order
WordStarts(s) == {i \in 1..Len(s) : ~IsSpace(s[i]) /\ (i = 1 \/ IsSpace(s[i - 1]))}

WordEnd(s, i) ==
    LET ends == {j \in i..Len(s) : j = Len(s) \/ IsSpace(s[j + 1])}
    IN  CHOOSE j \in ends : \A k \in ends : j <= k

RECURSIVE SplitFrom(_, _)
SplitFrom(s, starts) ==
    IF starts = {} THEN <<>>
    ELSE LET i == CHOOSE j \in starts : \A k \in starts : j <= k
         IN  <<SubSeq(s, i, WordEnd(s, i))>> \o SplitFrom(s, starts \ {i})

Split(s) == SplitFrom(s, WordStarts(s))

\* ' '.join(words)
RECURSIVE JoinSpace(_)
JoinSpace(words) ==
    IF words = <<>> THEN <<>>
    ELSE IF Len(words) = 1 THEN words[1]
    ELSE words[1] \o <<" ">> \o JoinSpace(Tail(words))

\* str.strip()
RECURSIVE LStrip(_)
LStrip(s) == IF s # <<>> /\ IsSpace(s[1]) THEN LStrip(Tail(s)) ELSE s

RECURSIVE RStrip(_)
RStrip(s) ==
    IF s # <<>> /\ IsSpace(s[Len(s)]) THEN RStrip(SubSeq(s, 1, Len(s) - 1)) ELSE s

Strip(s) == RStrip(LStrip(s))

\* n copies of character c
Repeat(c, n) == [i \in 1..n |-> c]

(***************************************************************************)
(* ThreadBuilder._normalize_subject                                        *)
(***************************************************************************)
\* re.sub(r'^<p>', '', s): a literal prefix, anchored, removed at most once
SubLiteralPrefix(s, p) == IF StartsWith(s, p) THEN DropFirst(s, Len(p)) ELSE s

\* re.sub(r'^\[.*?\]', '', s): from a leading "[" through the first "]"
\* (subjects hold no line break, so "." matches every character)
SubBracketPrefix(s) ==
    IF s # <<>> /\ s[1] = "[" /\ (\E i \in 2..Len(s) : s[i] = "]")
    THEN DropFirst(s, CHOOSE i \in 2..Len(s) :
                          s[i] = "]" /\ \A j \in 2..(i - 1) : s[j] # "]")
    ELSE s

\* the list `prefixes`, applied in order, each once
StripPrefixes(s) ==
    SubBracketPrefix(
      SubLiteralPrefix(
        SubLiteralPrefix(
          SubLiteralPrefix(
            SubLiteralPrefix(s, <<"r","e",":">>),
            <<"f","w",":">>),
          <<"f","w","d",":">>),
        <<"a","w",":">>))

normalize_subject(subject) ==
    IF subject = <<>>
    THEN <<>>
    ELSE Strip(JoinSpace(Split(StripPrefixes(LowerStr(subject)))))

(***************************************************************************)
(* Messages (EmailMessage): a message is named by its position in the      *)
(* list given to build_threads.  date is <<>> (None) or <<d>>.             *)
(***************************************************************************)
None == <<>>

\* the sort key of undated messages, datetime.min: earlier than every date
DatetimeMin == 0

HasDate(m) == m.date # None

\* key=lambda m: m.date if m.date else datetime.min
DateKey(M, i) == IF HasDate(M[i]) THEN M[i].date[1] ELSE DatetimeMin

SeqRange(s) == {s[i] : i \in 1..Len(s)}

\* {msg.sender, *msg.recipients, *msg.cc}
Participants(m) == {m.sender} \cup SeqRange(m.recipients) \cup SeqRange(m.cc)

SetMin(S) == CHOOSE x \in S : \A y \in S : x <= y
SetMax(S) == CHOOSE x \in S : \A y \in S : x >= y
IntMax(a, b) == IF a >= b THEN a ELSE b

RECURSIVE Concat(_)
Concat(ss) == IF ss = <<>> THEN <<>> ELSE ss[1] \o Concat(Tail(ss))

RECURSIVE SumOver(_, _)
SumOver(f, S) ==
    IF S = {} THEN 0
    ELSE LET x == CHOOSE y \in S : TRUE IN f[x] + SumOver(f, S \ {x})

\* list.sort / sorted with the date key: a stable sort, so an element goes
\* behind every element whose key is not greater
RECURSIVE SortByDate(_, _)
SortByDate(M, ids) ==
    IF ids = <<>> THEN <<>>
    ELSE LET n      == Len(ids)
             x      == ids[n]
             before == SortByDate(M, SubSeq(ids, 1, n - 1))
             pos    == Cardinality({j \in 1..Len(before) :
                                      DateKey(M, before[j]) <= DateKey(M, x)})
         IN  SubSeq(before, 1, pos) \o <<x>> \o SubSeq(before, pos + 1, Len(before))

(***************************************************************************)
(* EmailThread                                                             *)
(***************************************************************************)
Digits == <<"0","1","2","3","4","5","6","7","8","9">>

RECURSIVE DecimalDigits(_)
DecimalDigits(n) ==
    IF n < 10 THEN <<Digits[n + 1]>>
    ELSE Append(DecimalDigits(n \div 10), Digits[(n % 10) + 1])

\* f"{n:03d}"
Format03d(n) ==
    LET d == DecimalDigits(n)
    IN  IF Len(d) >= 3 THEN d ELSE Repeat("0", 3 - Len(d)) \o d

\* EmailThread(f"THREAD_{thread_counter:03d}")
EmailThread(thread_counter) ==
    [ thread_id         |-> <<"T","H","R","E","A","D","_">> \o Format03d(thread_counter),
      messages          |-> <<>>,
      subject           |-> <<>>,
      participants      |-> {},
      start_date        |-> None,
      end_date          |-> None,
      has_attachments   |-> FALSE,
      total_attachments |-> 0 ]

\* add_message that appends without sorting
add_message_unsorted(M, t, id) ==
    LET msgs  == Append(t.messages, id)
        dates == {M[msgs[i]].date[1] : i \in {j \in 1..Len(msgs) : HasDate(M[msgs[j]])}}
    IN  [ t EXCEPT
            !.messages          = msgs,
            !.subject           = M[msgs[1]].subject,
            !.participants      = UNION {Participants(M[msgs[i]]) : i \in 1..Len(msgs)},
            !.start_date        = IF dates # {} THEN <<SetMin(dates)>> ELSE t.start_date,
            !.end_date          = IF dates # {} THEN <<SetMax(dates)>> ELSE t.end_date,
            !.has_attachments   = \E i \in 1..Len(msgs) : M[msgs[i]].attachment_count > 0,
            !.total_attachments =
                SumOver([i \in 1..Len(msgs) |-> M[msgs[i]].attachment_count],
                        1..Len(msgs)) ]


\* add_message that sets the dates once and never recomputes them
add_message_keepsFirstDates(M, t, id) ==
    LET msgs  == SortByDate(M, Append(t.messages, id))
        dates == {M[msgs[i]].date[1] : i \in {j \in 1..Len(msgs) : HasDate(M[msgs[j]])}}
    IN  [ t EXCEPT
            !.messages          = msgs,
            !.subject           = M[msgs[1]].subject,
            !.participants      = UNION {Participants(M[msgs[i]]) : i \in 1..Len(msgs)},
            !.start_date        = IF dates # {} /\ t.start_date = None
                                  THEN <<SetMin(dates)>> ELSE t.start_date,
            !.end_date          = IF dates # {} /\ t.end_date = None
                                  THEN <<SetMax(dates)>> ELSE t.end_date,
            !.has_attachments   = \E i \in 1..Len(msgs) : M[msgs[i]].attachment_count > 0,
            !.total_attachments =
                SumOver([i \in 1..Len(msgs) |-> M[msgs[i]].attachment_count],
                        1..Len(msgs)) ]


\* EmailThread.add_message with the _update_metadata it ends with
add_message(M, t, id) ==
    LET msgs  == SortByDate(M, Append(t.messages, id))
        dates == {M[msgs[i]].date[1] : i \in {j \in 1..Len(msgs) : HasDate(M[msgs[j]])}}
    IN  [ t EXCEPT
            !.messages          = msgs,
            !.subject           = M[msgs[1]].subject,
            !.participants      = UNION {Participants(M[msgs[i]]) : i \in 1..Len(msgs)},
            !.start_date        = IF dates # {} THEN <<SetMin(dates)>> ELSE t.start_date,
            !.end_date          = IF dates # {} THEN <<SetMax(dates)>> ELSE t.end_date,
            !.has_attachments   = \E i \in 1..Len(msgs) : M[msgs[i]].attachment_count > 0,
            !.total_attachments =
                SumOver([i \in 1..Len(msgs) |-> M[msgs[i]].attachment_count],
                        1..Len(msgs)) ]

(***************************************************************************)
(* ThreadBuilder                                                           *)
(***************************************************************************)
\* _group_by_subject: the dict, as its (key, list) pairs in insertion order
RECURSIVE GroupFrom(_, _, _)
GroupFrom(M, i, groups) ==
    IF i > Len(M) THEN groups
    ELSE LET key == normalize_subject(M[i].subject)
             at  == {g \in 1..Len(groups) : groups[g].key = key}
         IN  IF at = {}
             THEN GroupFrom(M, i + 1, Append(groups, [key |-> key, msgs |-> <<i>>]))
             ELSE LET g == CHOOSE x \in at : TRUE
                  IN  GroupFrom(M, i + 1,
                                [groups EXCEPT ![g].msgs = Append(@, i)])

\* grouping that puts every message under one key
group_by_subject_oneGroup(M) ==
    IF M = <<>> THEN <<>>
    ELSE << [key |-> normalize_subject(M[1].subject), msgs |-> [i \in 1..Len(M) |-> i]] >>

\* _group_by_subject
group_by_subject(M) == GroupFrom(M, 1, <<>>)

\* the comparison of the ratio with the threshold, inverted
RatioReaches_inverted(overlap, size, threshold) == overlap * 100 <= threshold * size

\* ratio >= self.similarity_threshold, the threshold given in percent
RatioReaches(overlap, size, threshold) == overlap * 100 >= threshold * size

\* the loop of _split_by_participants joining the last matching group
RECURSIVE SplitParticipantsFrom_lastMatch(_, _, _, _, _, _)
SplitParticipantsFrom_lastMatch(M, msgs, i, groups, group_participants, threshold) ==
    IF i > Len(msgs) THEN groups
    ELSE LET msg_participants == Participants(M[msgs[i]])
             matching ==
                 {idx \in 1..Len(groups) :
                     /\ group_participants[idx] # {}
                     /\ RatioReaches(
                            Cardinality(msg_participants \cap group_participants[idx]),
                            IntMax(Cardinality(msg_participants), 1),
                            threshold)}
         IN  IF matching # {}
             THEN LET idx == SetMax(matching)
                  IN  SplitParticipantsFrom_lastMatch(M, msgs, i + 1,
                          [groups EXCEPT ![idx] = Append(@, msgs[i])],
                          [group_participants EXCEPT ![idx] = @ \cup msg_participants],
                          threshold)
             ELSE SplitParticipantsFrom_lastMatch(M, msgs, i + 1,
                          Append(groups, <<msgs[i]>>),
                          Append(group_participants, msg_participants),
                          threshold)


\* the loop of _split_by_participants from message i of msgs on
RECURSIVE SplitParticipantsFrom(_, _, _, _, _, _)
SplitParticipantsFrom(M, msgs, i, groups, group_participants, threshold) ==
    IF i > Len(msgs) THEN groups
    ELSE LET msg_participants == Participants(M[msgs[i]])
             matching ==
                 {idx \in 1..Len(groups) :
                     /\ group_participants[idx] # {}
                     /\ RatioReaches(
                            Cardinality(msg_participants \cap group_participants[idx]),
                            IntMax(Cardinality(msg_participants), 1),
                            threshold)}
         IN  IF matching # {}
             THEN LET idx == SetMin(matching)
                  IN  SplitParticipantsFrom(M, msgs, i + 1,
                          [groups EXCEPT ![idx] = Append(@, msgs[i])],
                          [group_participants EXCEPT ![idx] = @ \cup msg_participants],
                          threshold)
             ELSE SplitParticipantsFrom(M, msgs, i + 1,
                          Append(groups, <<msgs[i]>>),
                          Append(group_participants, msg_participants),
                          threshold)

split_by_participants(M, msgs, threshold) ==
    IF Len(msgs) <= 1 THEN <<msgs>>
    ELSE SplitParticipantsFrom(M, msgs, 1, <<>>, <<>>, threshold)

\* a gap of exactly max_gap_days taken as too large
GapTooLarge_inclusive(current_date, previous_date, gap_days) ==
    current_date - previous_date >= gap_days

\* time_gap > timedelta(days=max_gap_days)
GapTooLarge(current_date, previous_date, gap_days) ==
    current_date - previous_date > gap_days

\* the loop of _split_by_time_gap with a missing date taken as a gap
RECURSIVE SplitTimeGapFrom_undatedSplits(_, _, _, _, _, _)
SplitTimeGapFrom_undatedSplits(M, sorted_messages, i, sub_threads, current_thread, gap_days) ==
    IF i > Len(sorted_messages)
    THEN (IF current_thread # <<>> THEN Append(sub_threads, current_thread)
          ELSE sub_threads)
    ELSE LET current_msg  == sorted_messages[i]
             previous_msg == sorted_messages[i - 1]
         IN  IF \/ ~HasDate(M[current_msg])
                \/ ~HasDate(M[previous_msg])
                \/ M[current_msg].date[1] - M[previous_msg].date[1] > gap_days
             THEN SplitTimeGapFrom_undatedSplits(M, sorted_messages, i + 1,
                      Append(sub_threads, current_thread), <<current_msg>>, gap_days)
             ELSE SplitTimeGapFrom_undatedSplits(M, sorted_messages, i + 1,
                      sub_threads, Append(current_thread, current_msg), gap_days)

\* the loop of _split_by_time_gap from position i of sorted_messages on
RECURSIVE SplitTimeGapFrom(_, _, _, _, _, _)
SplitTimeGapFrom(M, sorted_messages, i, sub_threads, current_thread, gap_days) ==
    IF i > Len(sorted_messages)
    THEN (IF current_thread # <<>> THEN Append(sub_threads, current_thread)
          ELSE sub_threads)
    ELSE LET current_msg  == sorted_messages[i]
             previous_msg == sorted_messages[i - 1]
         IN  IF /\ HasDate(M[current_msg])
                /\ HasDate(M[previous_msg])
                /\ GapTooLarge(M[current_msg].date[1], M[previous_msg].date[1], gap_days)
             THEN SplitTimeGapFrom(M, sorted_messages, i + 1,
                      Append(sub_threads, current_thread), <<current_msg>>, gap_days)
             ELSE SplitTimeGapFrom(M, sorted_messages, i + 1,
                      sub_threads, Append(current_thread, current_msg), gap_days)

\* _split_by_time_gap without its "add last sub-thread" step
split_by_time_gap_dropsLast(M, msgs, gap_days) ==
    IF Len(msgs) <= 1 THEN <<msgs>>
    ELSE LET sorted_messages == SortByDate(M, msgs)
             all == SplitTimeGapFrom(M, sorted_messages, 2, <<>>,
                                     <<sorted_messages[1]>>, gap_days)
             sub_threads == SubSeq(all, 1, Len(all) - 1)
         IN  IF sub_threads # <<>> THEN sub_threads ELSE <<msgs>>

split_by_time_gap(M, msgs, gap_days) ==
    IF Len(msgs) <= 1 THEN <<msgs>>
    ELSE LET sorted_messages == SortByDate(M, msgs)
             sub_threads ==
                 SplitTimeGapFrom(M, sorted_messages, 2, <<>>,
                                  <<sorted_messages[1]>>, gap_days)
         IN  IF sub_threads # <<>> THEN sub_threads ELSE <<msgs>>

\* every subject group's participant_groups, in the order build_threads
\* goes through them
participant_groups(M, threshold) ==
    LET groups == group_by_subject(M)
    IN  Concat([g \in 1..Len(groups) |->
                   split_by_participants(M, groups[g].msgs, threshold)])

\* the sub_threads gone through last to first
sub_threads_of_reversed(M, threshold, gap_days) ==
    LET pgs  == participant_groups(M, threshold)
        subs == Concat([c \in 1..Len(pgs) |-> split_by_time_gap(M, pgs[c], gap_days)])
    IN  [n \in 1..Len(subs) |-> subs[Len(subs) + 1 - n]]


\* every sub_threads entry, in the order build_threads goes through them
sub_threads_of(M, threshold, gap_days) ==
    LET pgs == participant_groups(M, threshold)
    IN  Concat([c \in 1..Len(pgs) |-> split_by_time_gap(M, pgs[c], gap_days)])

\* thread = EmailThread(...); for msg in sub_msgs: thread.add_message(msg)
RECURSIVE FillThread(_, _, _, _)
FillThread(M, t, sub_msgs, i) ==
    IF i > Len(sub_msgs) THEN t
    ELSE FillThread(M, add_message(M, t, sub_msgs[i]), sub_msgs, i + 1)

build_threads(M, threshold, gap_days) ==
    IF M = <<>> THEN <<>>
    ELSE LET subs == sub_threads_of(M, threshold, gap_days)
         IN  [n \in 1..Len(subs) |-> FillThread(M, EmailThread(n), subs[n], 1)]

(***************************************************************************)
(* GigaChatAPIClient: categorize_thread and the circuit breaker.           *)
(* Russian literals of the source are written transliterated.              *)
(***************************************************************************)
\* p in s (substring test)
Contains(s, p) ==
    \E i \in 1..(Len(s) - Len(p) + 1) : SubSeq(s, i, i + Len(p) - 1) = p

\* _is_auth_error, on str(error)
is_auth_error(text) ==
    LET t == LowerStr(text)
    IN  \/ Contains(t, <<"4","0","1">>)
        \/ Contains(t, <<"4","0","3">>)
        \/ Contains(t, <<"i","n","v","a","l","i","d","_","t","o","k","e","n">>)
        \/ Contains(t, <<"u","n","a","u","t","h","o","r","i","z","e","d">>)
        \/ Contains(t, <<"f","o","r","b","i","d","d","e","n">>)
        \/ (Contains(t, <<"b","a","s","i","c">>) /\ Contains(t, <<"a","u","t","h">>))

\* "Без категории"
DefaultCategory == <<"B","e","z"," ","k","a","t","e","g","o","r","i","i">>

\* "Категория определена по теме переписки"
DescriptionBySubject == <<"K","a","t","e","g","o","r","i","y","a"," ","o","p","r","e","d","e","l","e","n","a"," ","p","o"," ","t","e","m","e"," ","p","e","r","e","p","i","s","k","i">>

\* subject[:50]
SubjectLabelLen == 50

\* the fallback dict of categorize_thread
SubjectFallback(subject) ==
    [category |-> Truncate(subject, SubjectLabelLen), description |-> DescriptionBySubject]

\* for line in content.split("\n"): a line is its leading tag ("category" for
\* "Категория:" / "Category:", "description" for "Описание:" /
\* "Description:", "" otherwise) and the text behind the tag's colon
RECURSIVE ParseLines(_, _, _, _)
ParseLines(lines, i, category, description) ==
    IF i > Len(lines) THEN [category |-> category, description |-> description]
    ELSE IF lines[i].tag = "category"
         THEN ParseLines(lines, i + 1, Strip(lines[i].text), description)
         ELSE IF lines[i].tag = "description"
              THEN ParseLines(lines, i + 1, category, Strip(lines[i].text))
              ELSE ParseLines(lines, i + 1, category, description)

\* the guard of categorize_threads that forgets the configuration switch
UsesClassifier_ignoresConfig(enabled, usable) == usable

\* `if self.ai_enabled and self.api_client.client` of categorize_threads
UsesClassifier(enabled, usable) == enabled /\ usable

\* categorize_thread that gives the client up after any failure
categorize_thread_tripsOnAnyError(usable, subject, outcome) ==
    IF ~usable
    THEN [result |-> SubjectFallback(subject), usable |-> usable]
    ELSE IF outcome.raised
         THEN [result |-> SubjectFallback(subject), usable |-> FALSE]
         ELSE [result |-> ParseLines(outcome.content, 1, DefaultCategory, <<>>),
               usable |-> usable]

\* categorize_thread that leaves the client usable after an auth failure
categorize_thread_noBreaker(usable, subject, outcome) ==
    IF ~usable
    THEN [result |-> SubjectFallback(subject), usable |-> usable]
    ELSE IF outcome.raised
         THEN [result |-> SubjectFallback(subject), usable |-> usable]
         ELSE [result |-> ParseLines(outcome.content, 1, DefaultCategory, <<>>),
               usable |-> usable]

\* GigaChatAPIClient.categorize_thread: `usable` is "self.client is not
\* None", `outcome` is what _chat_completion does (returns content, or raises
\* an error with text str(e)); the result and the client afterwards
categorize_thread(usable, subject, outcome) ==
    IF ~usable
    THEN [result |-> SubjectFallback(subject), usable |-> usable]
    ELSE IF outcome.raised
         THEN [result |-> SubjectFallback(subject),
               usable |-> IF is_auth_error(outcome.error) THEN FALSE ELSE usable]
         ELSE [result |-> ParseLines(outcome.content, 1, DefaultCategory, <<>>),
               usable |-> usable]

\* what _chat_completion can do
Returned(lines) == [raised |-> FALSE, content |-> lines, error |-> <<>>]
Raised(text)    == [raised |-> TRUE,  content |-> <<>>,  error |-> text]

\* an except clause that takes auth failures only
ExceptTakes_authOnly(outcome) == outcome.raised /\ is_auth_error(outcome.error)

\* `except Exception as e` of categorize_thread: what _chat_completion raises
\* (RuntimeError, the httpx errors, the ValueError of response.json()) derives
\* from Exception, so the clause takes whatever was raised
ExceptTakes(outcome) == outcome.raised

\* GigaChatAPIClient.summarize_thread, as far as the breaker goes: which of
\* its return statements is taken, and the client afterwards
summarize_thread(usable, outcome) ==
    IF ~usable
    THEN [result |-> "key_not_set", usable |-> usable]
    ELSE IF outcome.raised
         THEN [result |-> "basic_mode",
               usable |-> IF is_auth_error(outcome.error) THEN FALSE ELSE usable]
         ELSE [result |-> "from_content", usable |-> usable]

(***************************************************************************)
(* Categorizer                                                             *)
(***************************************************************************)
\* normalized[:120]
CategoryKeyLen == 120

\* _normalize_category_name that keeps the letter case
normalize_category_name_keepsCase(category_name) ==
    Truncate(JoinSpace(Split(
        IF category_name # <<>> THEN category_name ELSE DefaultCategory)),
        CategoryKeyLen)

\* Categorizer._normalize_category_name
normalize_category_name(category_name) ==
    Truncate(JoinSpace(Split(LowerStr(
        IF category_name # <<>> THEN category_name ELSE DefaultCategory))),
        CategoryKeyLen)

\* f"Thread with {thread.message_count} messages"
ThreadWithMessages(message_count) ==
    <<"T","h","r","e","a","d"," ","w","i","t","h"," ">> \o DecimalDigits(message_count) \o <<" ","m","e","s","s","a","g","e","s">>

\* ids counted from zero
CategoryId_zeroBased(counter) == <<"C","A","T","_">> \o Format03d(counter - 1)


\* f"CAT_{category_counter:03d}"
CategoryId(counter) == <<"C","A","T","_">> \o Format03d(counter)

\* the dict `categories_by_name`, as a function from keys to positions in
\* `categories`
EmptyDict == [k \in {} |-> 0]

DictPut(dict, key, value) ==
    [k \in (DOMAIN dict) \cup {key} |-> IF k = key THEN value ELSE dict[k]]

\* the lookup that never finds the key
KnownCategory_neverFound(dict, key) == 0

\* normalized_category_name in categories_by_name: the position of the
\* category, 0 when the key is new
KnownCategory(dict, key) == IF key \in DOMAIN dict THEN dict[key] ELSE 0

\* the merge that forgets category.add_thread on a known key
assign_category_dropsMerged(cats, dict, counter, thread, category_name, category_desc) ==
    LET key == normalize_category_name(category_name)
        at  == KnownCategory(dict, key)
    IN  IF at # 0
        THEN [categories |-> cats, by_name |-> dict, counter |-> counter]
        ELSE [categories |-> Append(cats, [category_id |-> CategoryId(counter),
                                           name        |-> category_name,
                                           description |-> category_desc,
                                           threads     |-> <<thread>>]),
              by_name    |-> DictPut(dict, key, Len(cats) + 1),
              counter    |-> counter + 1]

\* the merge that lets the latest thread rename the category
assign_category_overwrites(cats, dict, counter, thread, category_name, category_desc) ==
    LET key == normalize_category_name(category_name)
        at  == KnownCategory(dict, key)
    IN  IF at # 0
        THEN [categories |-> [cats EXCEPT ![at].threads     = Append(@, thread),
                                          ![at].name        = category_name,
                                          ![at].description = category_desc],
              by_name    |-> dict,
              counter    |-> counter]
        ELSE [categories |-> Append(cats, [category_id |-> CategoryId(counter),
                                           name        |-> category_name,
                                           description |-> category_desc,
                                           threads     |-> <<thread>>]),
              by_name    |-> DictPut(dict, key, Len(cats) + 1),
              counter    |-> counter + 1]


\* the second half of the loop body of categorize_threads: normalize the
\* name, then append to the known category or create one
assign_category(cats, dict, counter, thread, category_name, category_desc) ==
    LET key == normalize_category_name(category_name)
        at  == KnownCategory(dict, key)
    IN  IF at # 0
        THEN [categories |-> [cats EXCEPT ![at].threads = Append(@, thread)],
              by_name    |-> dict,
              counter    |-> counter]
        ELSE [categories |-> Append(cats, [category_id |-> CategoryId(counter),
                                           name        |-> category_name,
                                           description |-> category_desc,
                                           threads     |-> <<thread>>]),
              by_name    |-> DictPut(dict, key, Len(cats) + 1),
              counter    |-> counter + 1]

(***************************************************************************)
(* Subject normalizer harness: a subject is typed piece by piece, then     *)
(* normalized, then the result is normalized again.                        *)
(***************************************************************************)
MaxSubjectLen == 7

SubjectPieces ==
    { <<"R","E",":">>, <<"r","e",":">>, <<"F","w",":">>, <<"f","w","d",":">>,
      <<"A","W",":">>, <<"[","t","]">>, <<"[">>, <<"]">>, <<" ">>,
      <<"b","u","d">>, <<"X">> }

IdleNorm == subj = <<>> /\ norm1 = <<>> /\ norm2 = <<>> /\ npc = "idle"
IdleThreads ==
    /\ similarity_threshold = 0 /\ max_gap_days = 0
    /\ messages = <<>> /\ clusters = <<>> /\ threads = <<>> /\ tpc = "idle"
IdleCat ==
    /\ ai_enabled = FALSE /\ client = FALSE /\ cthreads = <<>> /\ cidx = 0
    /\ categories = <<>> /\ categories_by_name = <<>> /\ category_counter = 0
    /\ calls = <<>> /\ cpc = "idle"
IdleRuns == adapters = <<>> /\ runs = <<>> /\ app_run = 0
IdlePipe == script = <<>> /\ outputs = <<>>
IdleThread == email_thread = <<>>
IdleJobs ==
    /\ jobs = <<>> /\ jpc = <<>> /\ uploads = <<>> /\ work_queue = <<>>
IdleAtt ==
    /\ report_categories = <<>> /\ summaries = <<>> /\ headings = <<>>
    /\ attachment_folders = <<>> /\ att_stats = <<>> /\ saves = <<>> /\ gpc = "idle"
IdleKw == kw_bodies = <<>> /\ kw_result = <<>> /\ kpc = "idle"

InitNorm ==
    /\ subj = <<>> /\ norm1 = <<>> /\ norm2 = <<>> /\ npc = "input"
    /\ IdleThreads /\ IdleCat /\ IdleRuns /\ IdlePipe /\ IdleThread /\ IdleJobs /\ IdleAtt /\ IdleKw

TypePiece(p) ==
    /\ npc = "input"
    /\ Len(subj) + Len(p) <= MaxSubjectLen
    /\ subj' = subj \o p
    /\ UNCHANGED <<norm1, norm2, npc, tbVars, catVars, runVars, pipeVars, etVars, jobVars, attVars, kwVars>>

NormalizeOnce ==
    /\ npc = "input"
    /\ norm1' = normalize_subject(subj)
    /\ npc' = "once"
    /\ UNCHANGED <<subj, norm2, tbVars, catVars, runVars, pipeVars, etVars, jobVars, attVars, kwVars>>

NormalizeAgain ==
    /\ npc = "once"
    /\ norm2' = normalize_subject(norm1)
    /\ npc' = "twice"
    /\ UNCHANGED <<subj, norm1, tbVars, catVars, runVars, pipeVars, etVars, jobVars, attVars, kwVars>>

NextNorm ==
    \/ \E p \in SubjectPieces : TypePiece(p)
    \/ NormalizeOnce
    \/ NormalizeAgain

SpecNorm == InitNorm /\ [][NextNorm]_vars

(***************************************************************************)
(* ThreadBuilder harness: a configuration is fixed at construction,        *)
(* messages arrive one by one from the parser, and build_threads runs once *)
(* on the list.                                                            *)
(***************************************************************************)
MaxMessages == 3

Thresholds == {0, 50, 70}
GapDays    == {7, 10, 14}

Budget   == <<"B","u","d","g","e","t">>
ReBudget == <<"R","E",":"," ","B","u","d","g","e","t">>
Update   == <<"U","p","d","a","t","e">>

\* subject, sender, recipients, cc, attachment count
Envelopes ==
    { [subject |-> Budget,   sender |-> "a@x", recipients |-> <<"b@x">>, cc |-> <<>>,
       attachment_count |-> 0],
      [subject |-> ReBudget, sender |-> "b@x", recipients |-> <<"a@x">>, cc |-> <<>>,
       attachment_count |-> 1],
      [subject |-> ReBudget, sender |-> "b@x", recipients |-> <<>>,      cc |-> <<"c@x">>,
       attachment_count |-> 0],
      [subject |-> ReBudget, sender |-> "c@x", recipients |-> <<"d@x">>, cc |-> <<>>,
       attachment_count |-> 2],
      [subject |-> Update,   sender |-> "a@x", recipients |-> <<"b@x">>, cc |-> <<>>,
       attachment_count |-> 0] }

Dates == {None, <<1>>, <<11>>}

MessagePool ==
    { [subject |-> e.subject, sender |-> e.sender, recipients |-> e.recipients,
       cc |-> e.cc, date |-> d, attachment_count |-> e.attachment_count] :
      e \in Envelopes, d \in Dates }

InitThreads ==
    /\ similarity_threshold \in Thresholds
    /\ max_gap_days \in GapDays
    /\ messages = <<>> /\ clusters = <<>> /\ threads = <<>> /\ tpc = "input"
    /\ IdleNorm /\ IdleCat /\ IdleRuns /\ IdlePipe /\ IdleThread /\ IdleJobs /\ IdleAtt /\ IdleKw

ParseMessage(m) ==
    /\ tpc = "input"
    /\ Len(messages) < MaxMessages
    /\ messages' = Append(messages, m)
    /\ UNCHANGED <<similarity_threshold, max_gap_days, clusters, threads, tpc,
                   normVars, catVars, runVars, pipeVars, etVars, jobVars, attVars, kwVars>>

BuildThreads ==
    /\ tpc = "input"
    /\ clusters' = (IF messages = <<>> THEN <<>>
                    ELSE participant_groups(messages, similarity_threshold))
    /\ threads' = build_threads(messages, similarity_threshold, max_gap_days)
    /\ tpc' = "built"
    /\ UNCHANGED <<similarity_threshold, max_gap_days, messages,
                   normVars, catVars, runVars, pipeVars, etVars, jobVars, attVars, kwVars>>

NextThreads ==
    \/ \E m \in MessagePool : ParseMessage(m)
    \/ BuildThreads

SpecThreads == InitThreads /\ [][NextThreads]_vars

(***************************************************************************)
(* Properties of build_threads                                             *)
(***************************************************************************)
Built == tpc = "built"

MessageIds == 1..Len(messages)

\* the threads that hold message i
ThreadsOf(i) ==
    {t \in 1..Len(threads) : \E k \in 1..Len(threads[t].messages) :
                                 threads[t].messages[k] = i}

SameThread(i, j) == ThreadsOf(i) \cap ThreadsOf(j) # {}

\* how many times message i occurs in the returned threads
Occurrences(i) ==
    Cardinality({<<t, k>> \in (1..Len(threads)) \X (1..MaxMessages + 1) :
                    k <= Len(threads[t].messages) /\ threads[t].messages[k] = i})

SameSubjectGroup(i, j) ==
    normalize_subject(messages[i].subject) = normalize_subject(messages[j].subject)

DisjointParticipants(i, j) ==
    Participants(messages[i]) \cap Participants(messages[j]) = {}

\* the participant cluster (as a set of messages) that holds message i
ClustersOf(i) ==
    {c \in 1..Len(clusters) : i \in SeqRange(clusters[c])}

\* two dated messages of one cluster with no date of the cluster strictly
\* between theirs
DateAdjacent(c, a, b) ==
    /\ a \in SeqRange(clusters[c]) /\ b \in SeqRange(clusters[c]) /\ a # b
    /\ HasDate(messages[a]) /\ HasDate(messages[b])
    /\ messages[a].date[1] <= messages[b].date[1]
    /\ ~ \E x \in SeqRange(clusters[c]) :
           /\ HasDate(messages[x])
           /\ messages[a].date[1] < messages[x].date[1]
           /\ messages[x].date[1] < messages[b].date[1]

\* C2: the returned threads partition the input: every message is in exactly
\* one thread, once; no thread is empty; the thread sizes add up to the
\* number of messages.
C2_ThreadsPartitionMessages ==
    Built =>
      /\ \A i \in MessageIds : Occurrences(i) = 1
      /\ \A t \in 1..Len(threads) : threads[t].messages # <<>>
      /\ \A t \in 1..Len(threads) : SeqRange(threads[t].messages) \subseteq MessageIds
      /\ SumOver([t \in 1..Len(threads) |-> Len(threads[t].messages)],
                 1..Len(threads)) = Len(messages)

C2_Witness ==
    /\ Built /\ Len(messages) = 3 /\ Len(threads) = 2
    /\ \E t \in 1..Len(threads) : Len(threads[t].messages) = 2

\* C7 as claimed: with a threshold above 0, two messages with the same
\* normalized subject and disjoint participant sets are never in one thread,
\* whatever the other messages are.
C7_DisjointAlwaysSeparated ==
    (Built /\ similarity_threshold > 0) =>
      \A i, j \in MessageIds :
        (i < j /\ SameSubjectGroup(i, j) /\ DisjointParticipants(i, j))
          => ~SameThread(i, j)

\* C7 as amended: with a threshold above 0, two messages with the same
\* normalized subject and disjoint participant sets are in different threads
\* when the later one shares no participant with any message of that subject
\* group that precedes it in the input.
C7_DisjointFromAllEarlierSeparated ==
    (Built /\ similarity_threshold > 0) =>
      \A i, j \in MessageIds :
        ( /\ i < j /\ SameSubjectGroup(i, j)
          /\ \A k \in 1..(j - 1) : SameSubjectGroup(k, j) => DisjointParticipants(k, j) )
          => ~SameThread(i, j)

C7_Witness ==
    /\ Built /\ similarity_threshold > 0 /\ Len(messages) = 3
    /\ SameSubjectGroup(1, 3) /\ SameSubjectGroup(2, 3)
    /\ messages[1].date = messages[3].date /\ messages[2].date = messages[3].date
    /\ DisjointParticipants(1, 3) /\ DisjointParticipants(2, 3)
    /\ SameThread(1, 2) /\ ~SameThread(1, 3)

\* C8: within one participant cluster two date-adjacent dated messages are in
\* different threads exactly when their gap exceeds max_gap_days, and no
\* thread holds two date-adjacent dated messages further apart than that.
C8_SplitIffGapExceeds ==
    Built =>
      /\ \A c \in 1..Len(clusters) : \A a, b \in MessageIds :
           DateAdjacent(c, a, b) =>
             (~SameThread(a, b) <=>
                messages[b].date[1] - messages[a].date[1] > max_gap_days)
      /\ \A t \in 1..Len(threads) : \A a, b \in SeqRange(threads[t].messages) :
           ( /\ HasDate(messages[a]) /\ HasDate(messages[b])
             /\ messages[a].date[1] <= messages[b].date[1]
             /\ ~ \E x \in SeqRange(threads[t].messages) :
                    /\ HasDate(messages[x])
                    /\ messages[a].date[1] < messages[x].date[1]
                    /\ messages[x].date[1] < messages[b].date[1] )
             => messages[b].date[1] - messages[a].date[1] <= max_gap_days

\* a cluster of two messages exactly max_gap_days apart, kept in one thread
C8_Witness ==
    /\ Built /\ Len(clusters) = 1 /\ Len(clusters[1]) = 2
    /\ DateAdjacent(1, 1, 2)
    /\ messages[2].date[1] - messages[1].date[1] = max_gap_days
    /\ SameThread(1, 2)

\* C9: a pair with an undated message never starts a new sub-thread: the
\* undated messages of a cluster are all in the thread of the cluster's
\* earliest dated message, so a cluster of one dated and one undated message
\* is one thread and a cluster without dates is one thread.
C9_UndatedNeverSplits ==
    Built =>
      \A c \in 1..Len(clusters) :
        LET members == SeqRange(clusters[c])
            dated   == {x \in members : HasDate(messages[x])}
        IN  /\ \A u \in members \ dated : \A x \in members :
                 ( \/ x \notin dated
                   \/ \A y \in dated : messages[x].date[1] <= messages[y].date[1] )
                 => SameThread(u, x)
            /\ (Cardinality(members) = 2 /\ Cardinality(dated) = 1)
                 => \E t \in 1..Len(threads) : members \subseteq SeqRange(threads[t].messages)
            /\ dated = {}
                 => \E t \in 1..Len(threads) : members \subseteq SeqRange(threads[t].messages)

\* a dated message arrives before an undated one of the same cluster
C9_Witness ==
    /\ Built /\ Len(clusters) = 1 /\ Len(clusters[1]) = 2 /\ Len(threads) = 1
    /\ HasDate(messages[1]) /\ ~HasDate(messages[2])
    /\ threads[1].messages = <<2, 1>>

(***************************************************************************)
(* Categorizer harness: one Categorizer over one GigaChatAPIClient.  The   *)
(* threads arrive from the thread builder, categorize_threads starts, and  *)
(* each turn of its loop is one step; in a turn that calls the classifier  *)
(* the environment decides what _chat_completion does.                     *)
(***************************************************************************)
MaxThreads == 3

LongSubject == Repeat("s", SubjectLabelLen) \o <<"a","b">>
LongLabel   == Repeat("k", CategoryKeyLen) \o <<"a">>

\* what the categorizer reads of an EmailThread
ThreadPool ==
    { [subject |-> Budget,      message_count |-> 2],
      [subject |-> LongSubject, message_count |-> 1],
      [subject |-> <<" ">>,         message_count |-> 3] }

Line(tag, text) == [tag |-> tag, text |-> text]

Replies ==
    { << Line("category", <<" ","A","l","p","h","a"," ","O","p","s">>), Line("description", <<" ","d","1">>) >>,
      << Line("category", <<" ","a","l","p","h","a"," "," "," ","o","p","s"," ">>), Line("description", <<" ","d","2">>) >>,
      << Line("category", <<>>), Line("description", <<" ","d","3">>) >>,
      << Line("", <<"f","r","e","e"," ","t","e","x","t">>) >>,
      << Line("category", <<" ">> \o LongLabel), Line("description", <<" ","d","4">>) >> }

ErrorTexts ==
    { <<"4","0","1"," ","U","n","a","u","t","h","o","r","i","z","e","d">>, <<"4","0","3"," ","F","o","r","b","i","d","d","e","n">>, <<"i","n","v","a","l","i","d","_","t","o","k","e","n">>, <<"B","a","s","i","c"," ","a","u","t","h"," ","r","e","j","e","c","t","e","d">>,
      <<"t","i","m","e","d"," ","o","u","t">>, <<"5","0","0"," ","S","e","r","v","e","r"," ","E","r","r","o","r">>, <<"b","a","s","i","c"," ","q","u","o","t","a"," ","e","x","c","e","e","d","e","d">> }

Outcomes == {Returned(r) : r \in Replies} \cup {Raised(e) : e \in ErrorTexts}

InitCat ==
    /\ ai_enabled \in BOOLEAN
    /\ client \in BOOLEAN
    /\ cthreads = <<>> /\ cidx = 0
    /\ categories = <<>> /\ categories_by_name = EmptyDict /\ category_counter = 0
    /\ calls = <<>> /\ cpc = "input"
    /\ IdleNorm /\ IdleThreads /\ IdleRuns /\ IdlePipe /\ IdleThread /\ IdleJobs /\ IdleAtt /\ IdleKw

ReceiveThread(t) ==
    /\ cpc = "input"
    /\ Len(cthreads) < MaxThreads
    /\ cthreads' = Append(cthreads, t)
    /\ UNCHANGED <<ai_enabled, client, cidx, categories, categories_by_name,
                   category_counter, calls, cpc, normVars, tbVars, runVars, pipeVars, etVars, jobVars, attVars, kwVars>>

\* categorize_threads up to its loop
StartCategorize ==
    /\ cpc = "input"
    /\ cpc' = IF cthreads = <<>> THEN "done" ELSE "loop"
    /\ categories' = <<>>
    /\ categories_by_name' = EmptyDict
    /\ category_counter' = 1
    /\ UNCHANGED <<ai_enabled, client, cthreads, cidx, calls, normVars, tbVars, runVars, pipeVars, etVars, jobVars, attVars, kwVars>>

\* the rest of a turn, once category_name and category_desc are known
FinishTurn(category_name, category_desc) ==
    LET a == assign_category(categories, categories_by_name, category_counter,
                             cidx + 1, category_name, category_desc)
    IN  /\ categories' = a.categories
        /\ categories_by_name' = a.by_name
        /\ category_counter' = a.counter
        /\ cidx' = cidx + 1

\* a turn of the loop that calls api_client.categorize_thread; an exception
\* that no except clause takes leaves categorize_threads
ClassifyThread(outcome) ==
    /\ cpc = "loop" /\ cidx < Len(cthreads)
    /\ UsesClassifier(ai_enabled, client)
    /\ IF outcome.raised /\ ~ExceptTakes(outcome)
       THEN /\ cpc' = "raised"
            /\ UNCHANGED <<client, cidx, categories, categories_by_name,
                           category_counter, calls>>
       ELSE LET thread == cthreads[cidx + 1]
                r      == categorize_thread(client, thread.subject, outcome)
            IN  /\ client' = r.usable
                /\ FinishTurn(r.result.category, r.result.description)
                /\ calls' = Append(calls,
                       [ invoked     |-> TRUE,
                         failed      |-> outcome.raised,
                         auth_error  |-> outcome.raised /\ is_auth_error(outcome.error),
                         category    |-> r.result.category,
                         description |-> r.result.description ])
                /\ UNCHANGED cpc
    /\ UNCHANGED <<ai_enabled, cthreads, normVars, tbVars, runVars, pipeVars, etVars, jobVars, attVars, kwVars>>

\* a turn of the loop in the else branch: the subject as the category
LabelBySubject ==
    /\ cpc = "loop" /\ cidx < Len(cthreads)
    /\ ~UsesClassifier(ai_enabled, client)
    /\ LET thread == cthreads[cidx + 1]
           name   == Truncate(thread.subject, SubjectLabelLen)
           desc   == ThreadWithMessages(thread.message_count)
       IN  /\ FinishTurn(name, desc)
           /\ calls' = Append(calls,
                  [ invoked     |-> FALSE,
                    failed      |-> FALSE,
                    auth_error  |-> FALSE,
                    category    |-> name,
                    description |-> desc ])
    /\ UNCHANGED <<ai_enabled, client, cthreads, cpc, normVars, tbVars, runVars, pipeVars, etVars, jobVars, attVars, kwVars>>

\* return categories
ReturnCategories ==
    /\ cpc = "loop" /\ cidx = Len(cthreads)
    /\ cpc' = "done"
    /\ UNCHANGED <<ai_enabled, client, cthreads, cidx, categories, categories_by_name,
                   category_counter, calls, normVars, tbVars, runVars, pipeVars, etVars, jobVars, attVars, kwVars>>

NextCat ==
    \/ \E t \in ThreadPool : ReceiveThread(t)
    \/ StartCategorize
    \/ \E o \in Outcomes : ClassifyThread(o)
    \/ LabelBySubject
    \/ ReturnCategories

SpecCat == InitCat /\ [][NextCat]_vars

(***************************************************************************)
(* Runs harness: report runs and the adapters they use.  A web job builds  *)
(* its own GigaChatAPIClient in JobManager._run_job; the desktop           *)
(* application builds one in ReportMasterApp.__init__ and every            *)
(* start_processing uses it.  The authorization key is set and AI          *)
(* labeling is enabled, so a thread skips the classifier only through the  *)
(* breaker.                                                                *)
(***************************************************************************)
MaxRuns == 3
MaxRunThreads == 2

RunOutcomes ==
    { Returned(<< Line("category", <<" ","A","l","p","h","a"," ","O","p","s">>), Line("description", <<" ","d","1">>) >>),
      Raised(<<"4","0","1"," ","U","n","a","u","t","h","o","r","i","z","e","d">>),
      Raised(<<"t","i","m","e","d"," ","o","u","t">>) }

\* ReportMasterApp.__init__: self.api_client = ClaudeAPIClient(config)
AppAdapter == 1

InitRuns ==
    /\ adapters = <<TRUE>>
    /\ runs = <<>>
    /\ app_run = 0
    /\ IdleNorm /\ IdleThreads /\ IdleCat /\ IdlePipe /\ IdleThread /\ IdleJobs /\ IdleAtt /\ IdleKw

NewRun(kind, adapter, n) ==
    [kind |-> kind, adapter |-> adapter, left |-> n, to_sum |-> 0,
     calls |-> <<>>, phase |-> "categorize"]

\* JobManager._run_job up to categorization, for a job of n threads
StartWebJob(n) ==
    /\ Len(runs) < MaxRuns
    /\ adapters' = Append(adapters, TRUE)
    /\ runs' = Append(runs, NewRun("web", Len(adapters) + 1, n))
    /\ UNCHANGED <<app_run, normVars, tbVars, catVars, pipeVars, etVars, jobVars, attVars, kwVars>>

\* ReportMasterApp.start_processing, from the upload screen, which is shown
\* when no run is in progress
StartDesktopRun(n) ==
    /\ Len(runs) < MaxRuns
    /\ app_run = 0
    /\ runs' = Append(runs, NewRun("desktop", AppAdapter, n))
    /\ app_run' = Len(runs) + 1
    /\ UNCHANGED <<adapters, normVars, tbVars, catVars, pipeVars, etVars, jobVars, attVars, kwVars>>

\* one turn of the loop of categorize_threads in run r: the classifier is
\* called if self.api_client.client, else the subject is the label
RunCategorizeThread(r, outcome) ==
    /\ runs[r].phase = "categorize" /\ runs[r].left > 0
    /\ LET a      == runs[r].adapter
           usable == adapters[a]
       IN  /\ adapters' = IF usable
                          THEN [adapters EXCEPT
                                   ![a] = categorize_thread(usable, Budget, outcome).usable]
                          ELSE adapters
           /\ runs' = [runs EXCEPT
                  ![r].left  = @ - 1,
                  ![r].calls = Append(@,
                      [invoked    |-> usable,
                       auth_error |-> usable /\ outcome.raised
                                             /\ is_auth_error(outcome.error)])]
    /\ UNCHANGED <<app_run, normVars, tbVars, catVars, pipeVars, etVars, jobVars, attVars, kwVars>>

\* categorize_threads returns c categories; summarize_categories begins
BeginSummaries(r, c) ==
    /\ runs[r].phase = "categorize" /\ runs[r].left = 0
    /\ c <= Len(runs[r].calls)
    /\ runs' = [runs EXCEPT ![r].phase = "summarize", ![r].to_sum = c]
    /\ UNCHANGED <<adapters, app_run, normVars, tbVars, catVars, pipeVars, etVars, jobVars, attVars, kwVars>>

\* Summarizer._summarize_category for one category of run r: summarize_thread
\* is called if self.api_client.client, else the summary is built locally
RunSummarizeCategory(r, outcome) ==
    /\ runs[r].phase = "summarize" /\ runs[r].to_sum > 0
    /\ LET a == runs[r].adapter
       IN  adapters' = IF adapters[a]
                       THEN [adapters EXCEPT
                                ![a] = summarize_thread(adapters[a], outcome).usable]
                       ELSE adapters
    /\ runs' = [runs EXCEPT ![r].to_sum = @ - 1]
    /\ UNCHANGED <<app_run, normVars, tbVars, catVars, pipeVars, etVars, jobVars, attVars, kwVars>>

\* the run ends; the desktop application returns to the upload screen
FinishRun(r) ==
    /\ runs[r].phase = "summarize" /\ runs[r].to_sum = 0
    /\ runs' = [runs EXCEPT ![r].phase = "done"]
    /\ app_run' = IF app_run = r THEN 0 ELSE app_run
    /\ UNCHANGED <<adapters, normVars, tbVars, catVars, pipeVars, etVars, jobVars, attVars, kwVars>>

NextRuns ==
    \/ \E n \in 1..MaxRunThreads : StartWebJob(n)
    \/ \E n \in 1..MaxRunThreads : StartDesktopRun(n)
    \/ \E r \in 1..Len(runs) : \E o \in RunOutcomes : RunCategorizeThread(r, o)
    \/ \E r \in 1..Len(runs) : \E c \in 1..MaxRunThreads : BeginSummaries(r, c)
    \/ \E r \in 1..Len(runs) : \E o \in RunOutcomes : RunSummarizeCategory(r, o)
    \/ \E r \in 1..Len(runs) : FinishRun(r)

SpecRuns == InitRuns /\ [][NextRuns]_vars

(***************************************************************************)
(* EmailThread harness: the messages parsed so far are added, in the order *)
(* they come (which is any order of dates), to one EmailThread by          *)
(* add_message; build_threads can be called on them as well.               *)
(***************************************************************************)
InitEmailThread ==
    /\ similarity_threshold = 50 /\ max_gap_days = 7
    /\ messages = <<>> /\ clusters = <<>> /\ threads = <<>> /\ tpc = "input"
    /\ email_thread = EmailThread(1)
    /\ IdleNorm /\ IdleCat /\ IdleRuns /\ IdlePipe /\ IdleJobs /\ IdleAtt /\ IdleKw

\* thread.add_message(msg)
AddMessage(m) ==
    /\ tpc = "input"
    /\ Len(messages) < MaxMessages
    /\ messages' = Append(messages, m)
    /\ email_thread' = add_message(messages', email_thread, Len(messages'))
    /\ UNCHANGED <<similarity_threshold, max_gap_days, clusters, threads, tpc,
                   normVars, catVars, runVars, pipeVars, jobVars, attVars, kwVars>>

NextEmailThread ==
    \/ \E m \in MessagePool : AddMessage(m)
    \/ BuildThreads

SpecEmailThread == InitEmailThread /\ [][NextEmailThread]_vars

(***************************************************************************)
(* Pipeline harness: build_threads then categorize_threads, executed twice *)
(* on the same messages, the same configuration and the same classifier    *)
(* responses (the k-th call of _chat_completion of an execution does       *)
(* script[k]).  The key is set and AI labeling is enabled.                 *)
(***************************************************************************)
MaxPipeMessages == 2

PipeMessages ==
    { m \in MessagePool :
        \/ m.subject = Budget /\ m.date = <<1>>
        \/ m.subject = ReBudget /\ m.sender = "b@x" /\ m.cc = <<>> /\ m.date = <<11>>
        \/ m.subject = ReBudget /\ m.sender = "c@x" /\ m.date = None
        \/ m.subject = Update /\ m.date = <<1>> }

PipeOutcomes ==
    { Returned(<< Line("category", <<" ","A","l","p","h","a"," ","O","p","s">>), Line("description", <<" ","d","1">>) >>),
      Returned(<< Line("category", <<" ","a","l","p","h","a"," "," "," ","o","p","s"," ">>), Line("description", <<" ","d","2">>) >>),
      Raised(<<"4","0","1"," ","U","n","a","u","t","h","o","r","i","z","e","d">>),
      Raised(<<"t","i","m","e","d"," ","o","u","t">>) }

\* the client reused from the earlier execution, as ReportMasterApp does
NewClient_reused(auth_key_set, earlier_client) == auth_key_set /\ earlier_client

\* GigaChatAPIClient.__init__: the client of a new adapter depends on the key
\* only, not on what became of an earlier adapter
NewClient(auth_key_set, earlier_client) == auth_key_set

InitPipe ==
    /\ similarity_threshold = 50 /\ max_gap_days = 7
    /\ messages \in UNION {[1..n -> PipeMessages] : n \in 0..MaxPipeMessages}
    /\ script \in [1..Len(messages) -> PipeOutcomes]
    /\ clusters = <<>> /\ threads = <<>> /\ tpc = "input"
    /\ ai_enabled = TRUE /\ client = NewClient(TRUE, TRUE)
    /\ cthreads = <<>> /\ cidx = 0
    /\ categories = <<>> /\ categories_by_name = EmptyDict /\ category_counter = 0
    /\ calls = <<>> /\ cpc = "idle"
    /\ outputs = <<>>
    /\ IdleNorm /\ IdleRuns /\ IdleThread /\ IdleJobs /\ IdleAtt /\ IdleKw

\* thread_builder.build_threads(messages), whose result is the argument of
\* categorize_threads
PipeBuildThreads ==
    /\ tpc = "input" /\ Len(outputs) < 2
    /\ clusters' = (IF messages = <<>> THEN <<>>
                    ELSE participant_groups(messages, similarity_threshold))
    /\ threads' = build_threads(messages, similarity_threshold, max_gap_days)
    /\ cthreads' = [n \in 1..Len(threads') |->
                       [subject       |-> threads'[n].subject,
                        message_count |-> Len(threads'[n].messages)]]
    /\ tpc' = "built"
    /\ cpc' = "input"
    /\ UNCHANGED <<similarity_threshold, max_gap_days, messages, ai_enabled, client,
                   cidx, categories, categories_by_name, category_counter, calls,
                   normVars, runVars, pipeVars, etVars, jobVars, attVars, kwVars>>

\* a turn of the loop whose classifier call gets the next scripted response
PipeClassify ==
    /\ tpc = "built"
    /\ ClassifyThread(script[Cardinality({i \in 1..Len(calls) : calls[i].invoked}) + 1])

\* the execution is over: its output is kept, and the next execution gets
\* a new adapter
PipeRecord ==
    /\ tpc = "built" /\ cpc = "done"
    /\ outputs' = Append(outputs, [threads |-> threads, categories |-> categories])
    /\ client' = NewClient(TRUE, client)
    /\ cidx' = 0 /\ calls' = <<>>
    /\ tpc' = IF Len(outputs) + 1 < 2 THEN "input" ELSE "end"
    /\ cpc' = "idle"
    /\ UNCHANGED <<similarity_threshold, max_gap_days, messages, clusters, threads,
                   ai_enabled, cthreads, categories, categories_by_name,
                   category_counter, script, normVars, runVars, etVars, jobVars, attVars, kwVars>>

NextPipe ==
    \/ PipeBuildThreads
    \/ StartCategorize
    \/ PipeClassify
    \/ LabelBySubject
    \/ ReturnCategories
    \/ PipeRecord

SpecPipe == InitPipe /\ [][NextPipe]_vars

(***************************************************************************)
(* Properties of the categorizer                                           *)
(***************************************************************************)
Categorized == cpc = "done"

ThreadIds == 1..Len(cthreads)

\* the places (category, position) that hold thread i
PlacesOf(i) ==
    {p \in {<<c, k>> : c \in 1..Len(categories), k \in 1..MaxThreads} :
        /\ p[2] <= Len(categories[p[1]].threads)
        /\ categories[p[1]].threads[p[2]] = i}

SameCategory(i, j) ==
    \E c \in 1..Len(categories) :
        {i, j} \subseteq SeqRange(categories[c].threads)

\* sum(c.thread_count for c in categories)
TotalThreadCount ==
    SumOver([c \in 1..Len(categories) |-> Len(categories[c].threads)],
            1..Len(categories))

\* the label came back from the classifier (the call was made and returned)
FromClassifier(i) == calls[i].invoked /\ ~calls[i].failed

\* two labels that are equal, or differ only in letter case and in the
\* length of their whitespace runs
SameModuloCaseAndSpace(a, b) == Split(LowerStr(a)) = Split(LowerStr(b))

\* C1: once a classifier call has failed with an auth-failure error, every
\* later thread of the run gets the subject label (subject[:50]) without the
\* classifier being called, and the adapter stays disabled.
C1_BreakerIsSticky ==
    /\ \A i \in 1..Len(calls) : \A j \in 1..Len(calls) :
          (i < j /\ calls[i].auth_error) =>
              /\ ~calls[j].invoked
              /\ calls[j].category = Truncate(cthreads[j].subject, SubjectLabelLen)
    /\ (\E i \in 1..Len(calls) : calls[i].auth_error) => ~client

C1_Witness ==
    /\ Categorized /\ Len(calls) = 3
    /\ FromClassifier(1)
    /\ calls[2].auth_error
    /\ ~calls[3].invoked
    /\ calls[3].category = Truncate(cthreads[3].subject, SubjectLabelLen)
    /\ Len(cthreads[3].subject) > SubjectLabelLen

\* C3: no two returned categories have the same normalized key (lowercased,
\* whitespace-collapsed, defaulted, cut to 120) computed from their names.
C3_KeysAreUnique ==
    \A a \in 1..Len(categories) : \A b \in 1..Len(categories) :
        a # b => normalize_category_name(categories[a].name)
                     # normalize_category_name(categories[b].name)

C3_Witness ==
    /\ Categorized /\ Len(categories) = 2
    /\ \E c \in 1..Len(categories) :
          /\ Len(categories[c].threads) = 2
          /\ calls[categories[c].threads[1]].category
                 # calls[categories[c].threads[2]].category

\* C4: after categorize_threads every input thread is in exactly one place of
\* exactly one category, and the thread counts of the categories add up to the
\* number of input threads, whether the classifier returned or failed.
C4_EveryThreadInOneCategory ==
    Categorized =>
        /\ \A i \in ThreadIds : Cardinality(PlacesOf(i)) = 1
        /\ TotalThreadCount = Len(cthreads)

C4_Witness ==
    /\ Categorized /\ Len(cthreads) = 3 /\ Len(categories) = 2
    /\ \E i \in ThreadIds : FromClassifier(i)
    /\ \E i \in ThreadIds : calls[i].failed
    /\ TotalThreadCount = 3

\* C5: two threads whose classifier labels are equal or differ only by letter
\* case and amount of whitespace are in the same category, and when every
\* thread got the same label there is exactly one category, with all threads.
C5_SameLabelSameCategory ==
    Categorized =>
        /\ \A i \in ThreadIds : \A j \in ThreadIds :
              (/\ FromClassifier(i) /\ FromClassifier(j)
               /\ SameModuloCaseAndSpace(calls[i].category, calls[j].category))
                  => SameCategory(i, j)
        /\ (/\ cthreads # <<>>
            /\ \A i \in ThreadIds : calls[i].category = calls[1].category)
               => /\ Len(categories) = 1
                  /\ SeqRange(categories[1].threads) = ThreadIds

C5_Witness ==
    /\ Categorized /\ Len(cthreads) = 3
    /\ \A i \in ThreadIds : FromClassifier(i)
    /\ calls[1].category # calls[2].category
    /\ SameModuloCaseAndSpace(calls[1].category, calls[2].category)
    /\ calls[3].category = calls[1].category
    /\ Len(categories) = 1

(***************************************************************************)
(* Properties of runs                                                      *)
(***************************************************************************)
\* C10: the breaker is scoped to a run: a thread of a run skips the
\* classifier only after an auth failure of a classifier call of that same
\* run, never because of a failure in another run.
C10_BreakerScopedToRun ==
    \A r \in 1..Len(runs) : \A k \in 1..Len(runs[r].calls) :
        ~runs[r].calls[k].invoked =>
            \E i \in 1..(k - 1) : runs[r].calls[i].auth_error

\* C6: subject normalization is idempotent: normalizing a normalized
\* subject gives it back.
C6_NormalizeIdempotent == npc = "twice" => norm2 = norm1

\* C11: whenever a thread gets no label from the classifier (the call failed,
\* labeling is disabled, or the breaker is tripped) its label is subject[:50]
\* and its description is the "Thread with N messages" template.
C11_FallbackLabelAndDescription ==
    \A i \in 1..Len(calls) :
        ~FromClassifier(i) =>
            /\ calls[i].category = Truncate(cthreads[i].subject, SubjectLabelLen)
            /\ calls[i].description = ThreadWithMessages(cthreads[i].message_count)

\* C12: whatever the classifier calls do (return, fail, fail with an auth
\* error, time out), categorize_threads does not raise, every turn of its loop
\* is completed, and at its return every thread, those after a failed call
\* included, is in a category.
C12_FailuresAreIsolated ==
    /\ cpc # "raised"
    /\ Len(calls) = cidx
    /\ Categorized =>
          /\ Len(calls) = Len(cthreads)
          /\ \A i \in ThreadIds : \A j \in ThreadIds :
                (i < j /\ calls[i].failed) => PlacesOf(j) # {}

C12_Witness ==
    /\ Categorized /\ Len(cthreads) = 3
    /\ calls[1].failed /\ ~calls[1].auth_error
    /\ FromClassifier(2)
    /\ calls[3].auth_error
    /\ \A j \in ThreadIds : PlacesOf(j) # {}

MembersBefore(c, i) == {x \in SeqRange(clusters[c]) : x < i}

\* the cumulative participant set of cluster c when message i arrives
CumulativeBefore(c, i) ==
    UNION {Participants(messages[x]) : x \in MembersBefore(c, i)}

\* cluster c exists when message i arrives, is of its subject group, and
\* |P(i) \cap C| / max(|P(i)|, 1) >= similarity_threshold
Qualifies(c, i) ==
    /\ MembersBefore(c, i) # {}
    /\ \A x \in MembersBefore(c, i) : SameSubjectGroup(x, i)
    /\ Cardinality(Participants(messages[i]) \cap CumulativeBefore(c, i)) * 100
           >= similarity_threshold * IntMax(Cardinality(Participants(messages[i])), 1)

FirstMember(c) == SetMin(SeqRange(clusters[c]))

\* the three messages of the end-to-end scenario, at some dates
IsScenario ==
    /\ Len(messages) = 3
    /\ messages[1].subject = Budget /\ Participants(messages[1]) = {"a@x", "b@x"}
    /\ messages[2].subject = ReBudget /\ Participants(messages[2]) = {"a@x", "b@x"}
    /\ messages[3].subject = ReBudget /\ Participants(messages[3]) = {"c@x", "d@x"}
    /\ similarity_threshold = 50

\* C14: within a subject group each message joins the earliest-created
\* cluster whose cumulative participant set reaches the threshold ratio, and
\* opens a new cluster if none does; clusters are kept in creation order.  The
\* scenario Budget a->b, RE: Budget b->a, RE: Budget c->d at threshold 0.5
\* gives clusters {1,2} and {3}.
C14_GreedyFirstMatch ==
    Built =>
      /\ \A i \in MessageIds : \A c \in ClustersOf(i) :
            LET qualifying == {q \in 1..Len(clusters) : Qualifies(q, i)}
            IN  IF qualifying # {}
                THEN /\ c \in qualifying
                     /\ \A q \in qualifying : FirstMember(c) <= FirstMember(q)
                ELSE FirstMember(c) = i
      /\ \A c \in 1..Len(clusters) : \A d \in 1..Len(clusters) :
            (c < d /\ SameSubjectGroup(FirstMember(c), FirstMember(d)))
                => FirstMember(c) < FirstMember(d)
      /\ IsScenario => clusters = << <<1, 2>>, <<3>> >>
      /\ (IsScenario /\ messages[1].date = messages[2].date) =>
            /\ Len(threads) = 2
            /\ SeqRange(threads[1].messages) = {1, 2}
            /\ threads[2].messages = <<3>>

\* a message that qualifies for two clusters and joins the earlier one
C14_Witness ==
    /\ Built /\ similarity_threshold = 50 /\ Len(messages) = 3
    /\ clusters = << <<1, 3>>, <<2>> >>
    /\ Qualifies(1, 3) /\ Qualifies(2, 3)


(***************************************************************************)
(* Properties of EmailThread                                               *)
(***************************************************************************)
\* the thread that build_threads or add_message left is thread t
ThreadsInView == SeqRange(threads) \cup {email_thread}

\* messages by date ascending, undated ones first, equal dates and undated
\* ones in the order they came; the subject is that of the first message
OrderedAndTitled(t) ==
    /\ \A p \in 1..Len(t.messages) : \A q \in 1..Len(t.messages) :
          LET a == messages[t.messages[p]]
              b == messages[t.messages[q]]
          IN  p < q =>
                /\ (HasDate(a) /\ HasDate(b)) => a.date[1] <= b.date[1]
                /\ ~HasDate(b) => ~HasDate(a)
                /\ a.date = b.date => t.messages[p] < t.messages[q]
    /\ t.messages # <<>> => t.subject = messages[t.messages[1]].subject

\* C15: after every add_message, and in every thread build_threads returns,
\* the messages are in date order with undated ones first and ties in their
\* original order, and the subject is the first message's subject.
C15_ThreadOrderedAndTitled ==
    \A t \in ThreadsInView : OrderedAndTitled(t)

\* a thread that add_message had to reorder: a dated message, then an earlier
\* one, then an undated one
C15_Witness ==
    /\ Len(messages) = 3
    /\ HasDate(messages[1]) /\ HasDate(messages[2]) /\ ~HasDate(messages[3])
    /\ messages[2].date[1] < messages[1].date[1]
    /\ messages[2].subject # messages[3].subject
    /\ email_thread.messages = <<3, 2, 1>>
    /\ Built /\ threads # <<>>


\* the members of thread t, and those of them that have a date
MembersOf(t) == SeqRange(t.messages)

DatedMembersOf(t) == {i \in MembersOf(t) : messages[i].date # None}

\* the derived attributes of t are those of its members
ReflectsMembership(t) ==
    /\ Cardinality(MembersOf(t)) = Len(t.messages)
    /\ \A x \in t.participants : \E i \in MembersOf(t) :
          \/ x = messages[i].sender
          \/ x \in SeqRange(messages[i].recipients)
          \/ x \in SeqRange(messages[i].cc)
    /\ \A i \in MembersOf(t) :
          /\ messages[i].sender \in t.participants
          /\ SeqRange(messages[i].recipients) \subseteq t.participants
          /\ SeqRange(messages[i].cc) \subseteq t.participants
    /\ t.total_attachments =
          SumOver([i \in MembersOf(t) |-> messages[i].attachment_count], MembersOf(t))
    /\ IF DatedMembersOf(t) = {}
       THEN t.start_date = None /\ t.end_date = None
       ELSE /\ \E i \in DatedMembersOf(t) : t.start_date = messages[i].date
            /\ \E i \in DatedMembersOf(t) : t.end_date = messages[i].date
            /\ \A i \in DatedMembersOf(t) :
                  /\ t.start_date[1] <= messages[i].date[1]
                  /\ messages[i].date[1] <= t.end_date[1]

\* C16: after every add_message (and so in every thread of build_threads) the
\* participants are the union of sender, recipients and cc of the members,
\* the message count is the number of members, total_attachments is the sum
\* of their attachment counts, and start_date / end_date are the least and
\* greatest defined dates, None when no member has a date.
C16_DerivedAttributesCurrent ==
    /\ MembersOf(email_thread) = MessageIds
    /\ \A t \in ThreadsInView : ReflectsMembership(t)

\* a later add_message brought an earlier date, more participants and
\* more attachments
C16_Witness ==
    /\ Len(messages) = 3
    /\ messages[1].date = <<11>> /\ messages[2].date = <<1>> /\ messages[3].date = None
    /\ email_thread.start_date = <<1>> /\ email_thread.end_date = <<11>>
    /\ Cardinality(email_thread.participants) = 4
    /\ email_thread.total_attachments = 3


\* the name and description of every category are the label and description
\* obtained for its first thread
NamedByFirstThread ==
    \A c \in 1..Len(categories) :
        /\ categories[c].name = calls[categories[c].threads[1]].category
        /\ categories[c].description = calls[categories[c].threads[1]].description

\* a step leaves the id, name and description of every existing category
\* alone and only appends to its thread list
CategoriesOnlyGrow ==
    \A c \in 1..Len(categories) :
        /\ c <= Len(categories')
        /\ categories'[c].category_id = categories[c].category_id
        /\ categories'[c].name = categories[c].name
        /\ categories'[c].description = categories[c].description
        /\ Len(categories[c].threads) <= Len(categories'[c].threads)
        /\ SubSeq(categories'[c].threads, 1, Len(categories[c].threads))
               = categories[c].threads

\* C17: a category keeps the name and description obtained for the thread
\* that created it; a later thread with a matching key is appended to the
\* thread list and changes neither the id, the name nor the description.
C17_NameFromFirstThread ==
    [](NamedByFirstThread) /\ [][CategoriesOnlyGrow]_vars

\* a category whose second thread came with another label and description
C17_Witness ==
    /\ Categorized
    /\ \E c \in 1..Len(categories) :
          /\ Len(categories[c].threads) >= 2
          /\ calls[categories[c].threads[2]].category # categories[c].name
          /\ calls[categories[c].threads[2]].description # categories[c].description
          /\ calls[categories[c].threads[1]].category = categories[c].name


\* CAT_001, CAT_002, ... written out
SequentialIds ==
    << <<"C","A","T","_","0","0","1">>, <<"C","A","T","_","0","0","2">>,
       <<"C","A","T","_","0","0","3">>, <<"C","A","T","_","0","0","4">>,
       <<"C","A","T","_","0","0","5">> >>

\* the first processed thread whose label has the key of thread i's label
FirstWithKeyOf(i) ==
    SetMin({j \in 1..Len(calls) :
               normalize_category_name(calls[j].category)
                   = normalize_category_name(calls[i].category)})

\* C18: the categories are in the order in which their keys first occur in
\* the input thread order, their ids are CAT_001, CAT_002, ... in that order,
\* and every category's thread list is in input thread order.
C18_CategoriesInDiscoveryOrder ==
    /\ \A c \in 1..Len(categories) :
          /\ categories[c].category_id = SequentialIds[c]
          /\ \A p \in 1..Len(categories[c].threads) :
                /\ FirstWithKeyOf(categories[c].threads[p]) = categories[c].threads[1]
                /\ \A q \in 1..Len(categories[c].threads) :
                      p < q => categories[c].threads[p] < categories[c].threads[q]
    /\ \A c \in 1..Len(categories) : \A d \in 1..Len(categories) :
          c < d => categories[c].threads[1] < categories[d].threads[1]

\* the first and third thread share a key, the second has another
C18_Witness ==
    /\ Categorized /\ Len(categories) = 2
    /\ categories[1].threads = <<1, 3>>
    /\ categories[2].threads = <<2>>
    /\ categories[2].category_id = <<"C","A","T","_","0","0","2">>


\* THREAD_001, THREAD_002, ... written out
SequentialThreadIds ==
    << <<"T","H","R","E","A","D","_","0","0","1">>, <<"T","H","R","E","A","D","_","0","0","2">>,
       <<"T","H","R","E","A","D","_","0","0","3">>, <<"T","H","R","E","A","D","_","0","0","4">>,
       <<"T","H","R","E","A","D","_","0","0","5">> >>

\* a message of thread s (threads are not empty)
SomeMember(s) == threads[s].messages[1]

\* the first message of the input with the normalized subject of thread s
GroupFirstSeen(s) ==
    SetMin({i \in MessageIds : SameSubjectGroup(i, SomeMember(s))})

\* the first message of the input in the participant cluster of thread s
ClusterCreated(s) ==
    SetMin(UNION {SeqRange(clusters[c]) : c \in ClustersOf(SomeMember(s))})

\* every message of thread s is dated before every message of thread t
\* (an undated message counting as earliest)
AllBefore(s, t) ==
    \A a \in SeqRange(threads[s].messages) : \A b \in SeqRange(threads[t].messages) :
        /\ HasDate(messages[b])
        /\ HasDate(messages[a]) => messages[a].date[1] < messages[b].date[1]

\* C19: the threads come in discovery order: subject groups in first-seen
\* order, within a group the participant clusters in creation order, within
\* a cluster the time-gap sub-threads in date order; they are numbered
\* THREAD_001, THREAD_002, ... in that order.
C19_ThreadsInDiscoveryOrder ==
    Built =>
      /\ \A n \in 1..Len(threads) : threads[n].thread_id = SequentialThreadIds[n]
      /\ \A s \in 1..Len(threads) : \A t \in 1..Len(threads) :
            s < t =>
              \/ GroupFirstSeen(s) < GroupFirstSeen(t)
              \/ /\ GroupFirstSeen(s) = GroupFirstSeen(t)
                 /\ ClusterCreated(s) < ClusterCreated(t)
              \/ /\ GroupFirstSeen(s) = GroupFirstSeen(t)
                 /\ ClusterCreated(s) = ClusterCreated(t)
                 /\ AllBefore(s, t)

\* the first subject group splits by date into two threads, later message
\* first, and the second group follows
C19_Witness ==
    /\ Built /\ Len(messages) = 3 /\ Len(threads) = 3
    /\ threads[1].messages = <<3>>
    /\ threads[2].messages = <<1>>
    /\ threads[3].messages = <<2>>
    /\ SameSubjectGroup(1, 3) /\ ~SameSubjectGroup(1, 2)


\* a label that is empty once lowercased and whitespace-collapsed
BlankLabel(label) == Split(LowerStr(label)) = <<>>

\* C20: the key of every label is non-empty and at most 120 characters long;
\* an empty or whitespace-only label gets the key of the default label, so
\* its thread shares a category with every thread labelled with the default
\* label or with another blank label.
C20_KeyNeverEmpty ==
    /\ \A i \in 1..Len(calls) :
          /\ normalize_category_name(calls[i].category) # <<>>
          /\ Len(normalize_category_name(calls[i].category)) <= CategoryKeyLen
          /\ BlankLabel(calls[i].category) =>
                normalize_category_name(calls[i].category)
                    = normalize_category_name(DefaultCategory)
    /\ \A i \in 1..Len(calls) : \A j \in 1..Len(calls) :
          (/\ BlankLabel(calls[i].category)
           /\ BlankLabel(calls[j].category) \/ calls[j].category = DefaultCategory)
              => SameCategory(i, j)



(***************************************************************************)
(* JobManager: jobs are created by API requests and run by the executor's  *)
(* worker threads.  Every action below is one critical section of          *)
(* JobManager.lock together with the unshared work before it, so the       *)
(* states of the model are the states a concurrent get_job can see.        *)
(***************************************************************************)
MaxJobs == 2

\* ThreadPoolExecutor(max_workers=5)
max_workers == 5

\* JobState(job_id=job_id): the dataclass defaults
JobState ==
    [ status |-> "queued", progress |-> 0, step |-> "queued", error |-> None,
      finished_at |-> None, report_path |-> None, attachments_path |-> None ]

\* _set_progress that starts the progress over when a job fails
set_progress_zeroOnFailure(job, step, progress, status, error) ==
    [ job EXCEPT !.step = step,
                 !.progress = IF status = "failed" THEN 0 ELSE progress,
                 !.status = status, !.error = error,
                 !.finished_at = IF status \in {"completed", "failed"}
                                 THEN <<"utcnow">> ELSE @ ]

\* JobManager._set_progress, applied to the job's JobState
set_progress(job, step, progress, status, error) ==
    [ job EXCEPT !.step = step, !.progress = progress,
                 !.status = status, !.error = error,
                 !.finished_at = IF status \in {"completed", "failed"}
                                 THEN <<"utcnow">> ELSE @ ]

\* JobManager.get_job: self.jobs.get(job_id)
get_job(J, job_id) == IF job_id \in 1..Len(J) THEN <<J[job_id]>> ELSE None

\* JobManager.get_report_path
get_report_path(J, job_id) ==
    LET job == get_job(J, job_id)
    IN  IF job = None \/ job[1].report_path = None THEN None
        ELSE job[1].report_path

\* the steps _run_job announces while the job is processing, and the
\* progress it announces with each
Steps ==
    << "initializing", "parsing", "threading", "categorization",
       "summarization", "report_generation", "attachments" >>
Progress == << 1, 10, 30, 50, 70, 85, 95 >>

StepIndex(step) == CHOOSE k \in 1..Len(Steps) : Steps[k] = step

\* str(exc) of what _run_job catches
NoFilesError == "No .msg files uploaded"
StageError   == "stage raised"

\* what create_job is called with: the number of files whose name ends in
\* .msg, whether the parser can read them, and whether mkdir / write_bytes
\* succeed
Uploads ==
    [ msg_files : 0..1, parsable : BOOLEAN, writable : BOOLEAN ]

\* len(parser.parse_files(files)): a file that fails to parse is skipped
MessagesOf(upload) == IF upload.parsable THEN upload.msg_files ELSE 0

\* the jobs a worker thread is running
Running == {j \in 1..Len(jobs) : jpc[j] \in SeqRange(Steps) \cup {"published"}}

InitJobs ==
    /\ jobs = <<>> /\ jpc = <<>> /\ uploads = <<>> /\ work_queue = <<>>
    /\ IdleNorm /\ IdleThreads /\ IdleCat /\ IdleRuns /\ IdlePipe /\ IdleThread /\ IdleAtt /\ IdleKw

\* create_job up to the registration of the job
CreateJob(upload) ==
    /\ Len(jobs) < MaxJobs
    /\ jobs' = Append(jobs, JobState)
    /\ jpc' = Append(jpc, "registered")
    /\ uploads' = Append(uploads, upload)
    /\ UNCHANGED <<work_queue, normVars, tbVars, catVars, runVars, pipeVars, etVars, attVars, kwVars>>

\* create_job: input_dir.mkdir and the write_bytes loop; an OSError leaves
\* create_job before executor.submit
WriteInputs(j) ==
    /\ j \in 1..Len(jobs) /\ jpc[j] = "registered"
    /\ jpc' = [jpc EXCEPT ![j] = IF uploads[j].writable THEN "written" ELSE "raised"]
    /\ UNCHANGED <<jobs, uploads, work_queue, normVars, tbVars, catVars, runVars, pipeVars, etVars, attVars, kwVars>>

\* self.executor.submit(self._run_job, job_id, report_month)
SubmitJob(j) ==
    /\ j \in 1..Len(jobs) /\ jpc[j] = "written"
    /\ work_queue' = Append(work_queue, j)
    /\ jpc' = [jpc EXCEPT ![j] = "submitted"]
    /\ UNCHANGED <<jobs, uploads, normVars, tbVars, catVars, runVars, pipeVars, etVars, attVars, kwVars>>

\* a free worker takes the oldest submitted job: the first line of _run_job
StartJob(j) ==
    /\ work_queue # <<>> /\ j = Head(work_queue)
    /\ Cardinality(Running) < max_workers
    /\ work_queue' = Tail(work_queue)
    /\ jobs' = [jobs EXCEPT ![j] = set_progress(@, Steps[1], Progress[1], "processing", None)]
    /\ jpc' = [jpc EXCEPT ![j] = Steps[1]]
    /\ UNCHANGED <<uploads, normVars, tbVars, catVars, runVars, pipeVars, etVars, attVars, kwVars>>

\* the stage of the current step returns and _run_job announces the next step
AdvanceJob(j) ==
    /\ j \in 1..Len(jobs) /\ jpc[j] \in SeqRange(Steps)
    /\ LET k == StepIndex(jpc[j])
       IN  /\ k < Len(Steps)
           /\ k = 1 => uploads[j].msg_files > 0
           /\ jobs' = [jobs EXCEPT ![j] =
                         set_progress(@, Steps[k + 1], Progress[k + 1], "processing", None)]
           /\ jpc' = [jpc EXCEPT ![j] = Steps[k + 1]]
    /\ UNCHANGED <<uploads, work_queue, normVars, tbVars, catVars, runVars, pipeVars, etVars, attVars, kwVars>>

\* the except clause of _run_job: the RuntimeError of an empty input
\* directory, or what a stage raised
FailJob(j, error) ==
    /\ j \in 1..Len(jobs) /\ jpc[j] \in SeqRange(Steps)
    /\ IF jpc[j] = Steps[1] /\ uploads[j].msg_files = 0
       THEN error = NoFilesError
       ELSE error = StageError
    /\ jobs' = [jobs EXCEPT ![j] = set_progress(@, "failed", 100, "failed", <<error>>)]
    /\ jpc' = [jpc EXCEPT ![j] = "failed"]
    /\ UNCHANGED <<uploads, work_queue, normVars, tbVars, catVars, runVars, pipeVars, etVars, attVars, kwVars>>

\* save_attachments returned: the `with self.lock` block that stores
\* report_path, attachments_path and stats
PublishResults(j) ==
    /\ j \in 1..Len(jobs) /\ jpc[j] = "attachments"
    /\ jobs' = [jobs EXCEPT ![j].report_path = <<"report.docx">>,
                            ![j].attachments_path = <<"Attachments">>]
    /\ jpc' = [jpc EXCEPT ![j] = "published"]
    /\ UNCHANGED <<uploads, work_queue, normVars, tbVars, catVars, runVars, pipeVars, etVars, attVars, kwVars>>

\* self._set_progress(job_id, "completed", 100, status="completed")
CompleteJob(j) ==
    /\ j \in 1..Len(jobs) /\ jpc[j] = "published"
    /\ jobs' = [jobs EXCEPT ![j] = set_progress(@, "completed", 100, "completed", None)]
    /\ jpc' = [jpc EXCEPT ![j] = "completed"]
    /\ UNCHANGED <<uploads, work_queue, normVars, tbVars, catVars, runVars, pipeVars, etVars, attVars, kwVars>>

\* what the request thread of create_job does next for job j
RequestStep(j) == WriteInputs(j) \/ SubmitJob(j)

\* what a worker thread does next for job j
WorkerStep(j) ==
    \/ StartJob(j)
    \/ AdvanceJob(j)
    \/ \E e \in {NoFilesError, StageError} : FailJob(j, e)
    \/ PublishResults(j)
    \/ CompleteJob(j)

NextJobs ==
    \/ \E u \in Uploads : CreateJob(u)
    \/ \E j \in 1..MaxJobs : WriteInputs(j)
    \/ \E j \in 1..MaxJobs : SubmitJob(j)
    \/ \E j \in 1..MaxJobs : StartJob(j)
    \/ \E j \in 1..MaxJobs : AdvanceJob(j)
    \/ \E j \in 1..MaxJobs : \E e \in {NoFilesError, StageError} : FailJob(j, e)
    \/ \E j \in 1..MaxJobs : PublishResults(j)
    \/ \E j \in 1..MaxJobs : CompleteJob(j)

SpecJobs == InitJobs /\ [][NextJobs]_vars

\* the request thread and the worker threads keep running: a step that stays
\* possible for a job is eventually taken
SpecJobsFair ==
    /\ SpecJobs
    /\ \A j \in 1..MaxJobs : WF_vars(RequestStep(j)) /\ WF_vars(WorkerStep(j))

(***************************************************************************)
(* AttachmentManager and the section numbers of WordReportGenerator        *)
(***************************************************************************)
\* invalid_chars = '<>:"/\\|?*'
InvalidChars == {"<", ">", ":", "\"", "/", "\\", "|", "?", "*"}

\* for char in invalid_chars: name = name.replace(char, '_')
ReplaceInvalid(name) ==
    [i \in 1..Len(name) |-> IF name[i] \in InvalidChars THEN "_" ELSE name[i]]

RECURSIVE LStripDots(_)
LStripDots(s) == IF s # <<>> /\ s[1] = "." THEN LStripDots(Tail(s)) ELSE s

RECURSIVE RStripDots(_)
RStripDots(s) ==
    IF s # <<>> /\ s[Len(s)] = "." THEN RStripDots(SubSeq(s, 1, Len(s) - 1)) ELSE s

\* s.strip(".")
StripDots(s) == RStripDots(LStripDots(s))

\* the default max_length of _sanitize_filename, and the one
\* _safe_attachment_filename passes
FolderNameLen == 50
AttachmentNameLen == 120

\* AttachmentManager._sanitize_filename
sanitize_filename(name, max_length) ==
    LET stripped == StripDots(Strip(ReplaceInvalid(name)))
        named    == IF stripped = <<>> THEN <<"u","n","n","a","m","e","d">> ELSE stripped
    IN  Strip(Truncate(named, max_length))

\* the parts of a POSIX path: the text between slashes, without the empty
\* parts and the "." parts
RECURSIVE PathParts(_, _, _)
PathParts(s, cur, parts) ==
    LET closed == IF cur = <<>> \/ cur = <<".">> THEN parts ELSE Append(parts, cur)
    IN  IF s = <<>> THEN closed
        ELSE IF s[1] = "/" THEN PathParts(Tail(s), <<>>, closed)
        ELSE PathParts(Tail(s), Append(cur, s[1]), parts)

\* Path(str(raw_name)).name
PathName(raw_name) ==
    LET parts == PathParts(raw_name, <<>>, <<>>)
    IN  IF parts = <<>> THEN <<>> ELSE parts[Len(parts)]

\* AttachmentManager._safe_attachment_filename
safe_attachment_filename(raw_name) == sanitize_filename(PathName(raw_name), AttachmentNameLen)

\* (category_folder / name).exists(): a file of the folder, or, for the empty
\* name, the folder itself
PathExists(files, name) == name = <<>> \/ name \in files

\* the positions of "." in a name
DotsOf(name) == {i \in 1..Len(name) : name[i] = "."}

\* the name the duplicate loop tries with `counter`: filename.rsplit('.', 1)
NumberedName(filename, counter) ==
    IF DotsOf(filename) # {}
    THEN LET d == SetMax(DotsOf(filename))
         IN  SubSeq(filename, 1, d - 1) \o <<"_">> \o DecimalDigits(counter)
                \o <<".">> \o SubSeq(filename, d + 1, Len(filename))
    ELSE filename \o <<"_">> \o DecimalDigits(counter)

\* the name output_path has when the `while output_path.exists()` loop ends
FreeName(files, filename) ==
    IF ~PathExists(files, filename) THEN filename
    ELSE LET counter == SetMin({c \in 1..(Cardinality(files) + 1) :
                                   ~PathExists(files, NumberedName(filename, c))})
         IN  NumberedName(filename, counter)

\* resolved_category in resolved_output.parents: the joined name stays
\* directly under the folder
ResolvesInside(name) ==
    /\ name \notin {<<>>, <<".">>, <<".", ".">>}
    /\ \A i \in 1..Len(name) : name[i] # "/"

\* AttachmentManager._save_attachment on a folder holding `files`, with
\* stats['total_attachments'] = total
save_attachment(attachment, files, total) ==
    LET filename == safe_attachment_filename(attachment.filename)
        output   == FreeName(files, filename)
    IN  IF ~attachment.data \/ ~ResolvesInside(output)
        THEN [files |-> files, total |-> total, written |-> None]
        ELSE [files |-> files \cup {output}, total |-> total + 1,
              written |-> <<output>>]

\* section_label = f"4.{idx}"
section_label(idx) == <<"4", ".">> \o DecimalDigits(idx)

\* f"{section_label}_{self._sanitize_filename(category.name)}"
category_folder_name(idx, name) ==
    section_label(idx) \o <<"_">> \o sanitize_filename(name, FolderNameLen)

\* _add_subsection: f"4.{subsection_num} {summary_data['category_name']}"
heading_text(subsection_num, category_name) ==
    <<"4", ".">> \o DecimalDigits(subsection_num) \o <<" ">> \o category_name

\* the attachments of a category: those of the messages of its threads
RECURSIVE SaveEach(_, _, _)
SaveEach(attachments, j, acc) ==
    IF j > Len(attachments) THEN acc
    ELSE LET r == save_attachment(attachments[j], acc.files, acc.total)
         IN  SaveEach(attachments, j + 1,
                [ files |-> r.files, total |-> r.total,
                  saves |-> Append(acc.saves,
                              [ filename |-> attachments[j].filename,
                                data     |-> attachments[j].data,
                                existing |-> acc.files,
                                written  |-> r.written,
                                counted  |-> r.total - acc.total ]) ])

RECURSIVE SaveFrom(_, _, _)
SaveFrom(cats, idx, acc) ==
    IF idx > Len(cats) THEN acc
    ELSE IF Len(cats[idx].attachments) = 0 THEN SaveFrom(cats, idx + 1, acc)
    ELSE LET r == SaveEach(cats[idx].attachments, 1,
                     [files |-> {}, total |-> acc.stats.total_attachments,
                      saves |-> acc.saves])
         IN  SaveFrom(cats, idx + 1,
                [ folders |-> Append(acc.folders,
                                [ category_id |-> cats[idx].category_id,
                                  name  |-> category_folder_name(idx, cats[idx].name),
                                  files |-> r.files ]),
                  stats   |-> [ total_attachments |-> r.total,
                                categories_with_attachments |->
                                   acc.stats.categories_with_attachments + 1 ],
                  saves   |-> r.saves ])

NoStats == [total_attachments |-> 0, categories_with_attachments |-> 0]

\* the categories that have attachments
WithAttachments(cats) == SelectSeq(cats, LAMBDA c : Len(c.attachments) > 0)

\* save_attachments that numbers the folders it creates
save_attachments_numbersFolders(cats) ==
    SaveFrom(WithAttachments(cats), 1, [folders |-> <<>>, stats |-> NoStats, saves |-> <<>>])

\* AttachmentManager.save_attachments: the folders under Attachments/, the
\* stats, and what each _save_attachment call did
save_attachments(cats) ==
    SaveFrom(cats, 1, [folders |-> <<>>, stats |-> NoStats, saves |-> <<>>])

\* Summarizer.summarize_categories: summaries[category.category_id], a dict
\* in insertion order
RECURSIVE SummariesFrom(_, _, _)
SummariesFrom(cats, i, dict) ==
    IF i > Len(cats) THEN dict
    ELSE LET entry == [category_id |-> cats[i].category_id,
                       category_name |-> cats[i].name]
             at    == {k \in 1..Len(dict) : dict[k].category_id = entry.category_id}
         IN  SummariesFrom(cats, i + 1,
                IF at = {} THEN Append(dict, entry)
                ELSE [k \in 1..Len(dict) |-> IF k \in at THEN entry ELSE dict[k]])

summarize_categories(cats) == SummariesFrom(cats, 1, <<>>)

\* _add_section_4: one subsection per item of summaries, numbered from 1
add_section_4(dict) ==
    [idx \in 1..Len(dict) |-> heading_text(idx, dict[idx].category_name)]

(***************************************************************************)
(* The generators on the categories of a run.                              *)
(***************************************************************************)
MaxCategories == 2
MaxAttachments == 2

AttachmentPool ==
    { [filename |-> <<".",".","/","e","v","i","l",".","t","x","t">>, data |-> TRUE],
      [filename |-> <<"e","v","i","l",".","t","x","t">>,    data |-> TRUE],
      [filename |-> <<"."," ",".">>,         data |-> TRUE],
      [filename |-> <<"e","v","i","l",".","t","x","t">>,    data |-> FALSE] }

AttachmentLists ==
    UNION {[1..n -> AttachmentPool] : n \in 0..MaxAttachments}

CategoryNames == { <<"B","u","d","g","e","t">>, <<"A","/","B",":"," ","c">> }

InitAttachments ==
    /\ report_categories = <<>> /\ summaries = <<>> /\ headings = <<>>
    /\ attachment_folders = <<>> /\ att_stats = NoStats /\ saves = <<>>
    /\ gpc = "input"
    /\ IdleNorm /\ IdleThreads /\ IdleCat /\ IdleRuns /\ IdlePipe /\ IdleThread /\ IdleJobs /\ IdleKw

\* one more category in the list categorize_threads returns: its key differs
\* from the keys of the categories before it
ReceiveCategory(name, attachments) ==
    /\ gpc = "input" /\ Len(report_categories) < MaxCategories
    /\ \A k \in 1..Len(report_categories) :
          normalize_category_name(report_categories[k].name) # normalize_category_name(name)
    /\ report_categories' = Append(report_categories,
          [ category_id |-> CategoryId(Len(report_categories) + 1),
            name        |-> name,
            attachments |-> attachments ])
    /\ UNCHANGED <<summaries, headings, attachment_folders, att_stats, saves, gpc,
                   normVars, tbVars, catVars, runVars, pipeVars, etVars, jobVars, kwVars>>

\* summaries = summarizer.summarize_categories(categories)
SummarizeCategories ==
    /\ gpc = "input"
    /\ summaries' = summarize_categories(report_categories)
    /\ gpc' = "summarized"
    /\ UNCHANGED <<report_categories, headings, attachment_folders, att_stats, saves,
                   normVars, tbVars, catVars, runVars, pipeVars, etVars, jobVars, kwVars>>

\* word_generator.generate_report(summaries=summaries, ...)
GenerateReport ==
    /\ gpc = "summarized"
    /\ headings' = add_section_4(summaries)
    /\ gpc' = "reported"
    /\ UNCHANGED <<report_categories, summaries, attachment_folders, att_stats, saves,
                   normVars, tbVars, catVars, runVars, pipeVars, etVars, jobVars, kwVars>>

\* attachment_manager.save_attachments(categories, output_dir)
SaveAttachments ==
    /\ gpc = "reported"
    /\ LET r == save_attachments(report_categories)
       IN  /\ attachment_folders' = r.folders
           /\ att_stats' = r.stats
           /\ saves' = r.saves
    /\ gpc' = "done"
    /\ UNCHANGED <<report_categories, summaries, headings,
                   normVars, tbVars, catVars, runVars, pipeVars, etVars, jobVars, kwVars>>

NextAttachments ==
    \/ \E n \in CategoryNames, a \in AttachmentLists : ReceiveCategory(n, a)
    \/ SummarizeCategories
    \/ GenerateReport
    \/ SaveAttachments

SpecAttachments == InitAttachments /\ [][NextAttachments]_vars

(***************************************************************************)
(* Categorizer._extract_keywords                                           *)
(***************************************************************************)
\* the character class [a-zA-Zа-яА-Я0-9]
WordChars ==
    SeqRange(LowerLetters) \cup SeqRange(UpperLetters) \cup SeqRange(CyrillicLower)
       \cup SeqRange(CyrillicUpper) \cup SeqRange(Digits)

\* the quantifier {3,} of the pattern
MinRunLen == 3

\* re.findall(r"[a-zA-Zа-яА-Я0-9]{3,}", s): the maximal runs of characters of
\* the class that have at least three characters, in order
RunStarts(s) ==
    {i \in 1..Len(s) : s[i] \in WordChars /\ (i = 1 \/ s[i - 1] \notin WordChars)}

RunEnd(s, i) ==
    SetMin({j \in i..Len(s) : j = Len(s) \/ s[j + 1] \notin WordChars})

RECURSIVE RunsFrom(_, _)
RunsFrom(s, starts) ==
    IF starts = {} THEN <<>>
    ELSE LET i == SetMin(starts)
             run == SubSeq(s, i, RunEnd(s, i))
         IN  (IF Len(run) >= MinRunLen THEN <<run>> ELSE <<>>)
                \o RunsFrom(s, starts \ {i})

FindAllWords(s) == RunsFrom(s, RunStarts(s))

\* stop_words
stop_words ==
    { <<"t","h","e">>, <<"i","s">>, <<"a","t">>, <<"w","h","i","c","h">>, <<"o","n">>, <<"a","n","d">>, <<"a">>, <<"a","n">>, <<"a","s">>, <<"t","o">>, <<"f","o","r">>,
      <<"o","f">>, <<"i","n">>, <<"cy-ch","cy-t","cy-o">>, <<"cy-eh","cy-t","cy-o">>, <<"cy-k","cy-a","cy-k">>, <<"cy-d","cy-l","cy-ya">>, <<"cy-i","cy-l","cy-i">>, <<"cy-p","cy-r","cy-i">>, <<"cy-b","cy-e","cy-z">>, <<"cy-p","cy-o","cy-s","cy-l","cy-e">>,
      <<"cy-p","cy-i","cy-s","cy-soft","cy-m","cy-o">> }

\* [w for w in words if len(w) > 3 and w not in stop_words]
FilterWords(words) ==
    SelectSeq(words, LAMBDA w : Len(w) > 3 /\ w \notin stop_words)

\* Counter(words)[w]
CountOf(words, w) == Cardinality({i \in 1..Len(words) : words[i] = w})

\* the position at which w entered the Counter
FirstAt(words, w) == SetMin({i \in 1..Len(words) : words[i] = w})

\* Counter(words).most_common(top_n): by count, the largest first, words of
\* equal count in the order they were first counted
RECURSIVE MostCommonFrom(_, _, _)
MostCommonFrom(words, rest, top_n) ==
    IF rest = {} \/ top_n = 0 THEN <<>>
    ELSE LET best == CHOOSE w \in rest : \A v \in rest :
                        \/ CountOf(words, w) > CountOf(words, v)
                        \/ /\ CountOf(words, w) = CountOf(words, v)
                           /\ FirstAt(words, w) <= FirstAt(words, v)
         IN  <<best>> \o MostCommonFrom(words, rest \ {best}, top_n - 1)

most_common(words, top_n) == MostCommonFrom(words, SeqRange(words), top_n)

\* " ".join([msg.body for msg in thread.messages if msg.body])
AllText(bodies) == JoinSpace(SelectSeq(bodies, LAMBDA b : b # <<>>))

\* the default of the parameter top_n
KeywordsTopN == 10

\* Categorizer._extract_keywords on the bodies of the thread's messages
extract_keywords(bodies, top_n) ==
    most_common(FilterWords(FindAllWords(LowerStr(AllText(bodies)))), top_n)

(***************************************************************************)
(* The bodies of the messages of a thread are typed piece by piece, then   *)
(* _extract_keywords runs on them.                                         *)
(***************************************************************************)
MaxTextLen == 9
MaxBodies == 2

BodyPieces == { <<"t","a","x">>, <<"B","u","d","g","e","t">>, <<"p","l","a","n">>, <<"t","h","e">>, <<"CY-D","cy-l","cy-ya">>, <<"a","b">>, <<" ">> }

TextLen(bodies) == Len(Concat(bodies))

InitKeywords ==
    /\ kw_bodies = <<>> /\ kw_result = <<>> /\ kpc = "input"
    /\ IdleNorm /\ IdleThreads /\ IdleCat /\ IdleRuns /\ IdlePipe /\ IdleThread /\ IdleJobs /\ IdleAtt

\* one more message in the thread, its body still empty
NextMessage ==
    /\ kpc = "input" /\ Len(kw_bodies) < MaxBodies
    /\ kw_bodies' = Append(kw_bodies, <<>>)
    /\ UNCHANGED <<kw_result, kpc, normVars, tbVars, catVars, runVars, pipeVars, etVars, jobVars, attVars>>

\* more text in the body of the last message
TypeBody(p) ==
    /\ kpc = "input" /\ kw_bodies # <<>>
    /\ TextLen(kw_bodies) + Len(p) <= MaxTextLen
    /\ kw_bodies' = [kw_bodies EXCEPT ![Len(kw_bodies)] = kw_bodies[Len(kw_bodies)] \o p]
    /\ UNCHANGED <<kw_result, kpc, normVars, tbVars, catVars, runVars, pipeVars, etVars, jobVars, attVars>>

\* keywords = self._extract_keywords(thread)
ExtractKeywords ==
    /\ kpc = "input"
    /\ kw_result' = extract_keywords(kw_bodies, KeywordsTopN)
    /\ kpc' = "done"
    /\ UNCHANGED <<kw_bodies, normVars, tbVars, catVars, runVars, pipeVars, etVars, jobVars, attVars>>

NextKeywords ==
    \/ NextMessage
    \/ \E p \in BodyPieces : TypeBody(p)
    \/ ExtractKeywords

SpecKeywords == InitKeywords /\ [][NextKeywords]_vars

(***************************************************************************)
(* Classifier switched off or unusable                                     *)
(***************************************************************************)
\* the client was None when categorize_threads began: it is None now and no
\* call of this run tripped the breaker
NoCredential == ~client /\ \A j \in 1..Len(calls) : ~calls[j].auth_error

TrippedBefore(i) == \E j \in 1..(i - 1) : calls[j].auth_error

\* C22: when the classifier is disabled by configuration, or the adapter is
\* unusable (no credential, or the breaker tripped earlier in the run), no turn
\* of categorize_threads calls the classifier, every such thread is labelled
\* with the first 50 characters of its subject, and the loop is not left by an
\* exception
C22_UnavailableMeansFallback ==
    /\ \A i \in 1..Len(calls) :
          (~ai_enabled \/ NoCredential \/ TrippedBefore(i))
             => /\ ~calls[i].invoked
                /\ calls[i].category = Truncate(cthreads[i].subject, SubjectLabelLen)
    /\ (~ai_enabled \/ NoCredential) => cpc # "raised"

C22_Witness ==
    /\ Categorized /\ Len(calls) = 3
    /\ ~ai_enabled /\ client
    /\ \A i \in 1..3 : ~calls[i].invoked
    /\ Len(categories) >= 2

\* C26: a classifier call that fails with an error outside the auth-failure
\* signature leaves the adapter usable: the next thread of the run is sent to
\* the classifier again, and after the last thread the client is still set
C26_OnlyAuthFailuresTrip ==
    \A i \in 1..Len(calls) :
       (calls[i].invoked /\ calls[i].failed /\ ~calls[i].auth_error)
          => /\ i < Len(calls) => calls[i + 1].invoked
             /\ i = Len(calls) => client

C26_Witness ==
    /\ Categorized /\ Len(calls) = 3
    /\ calls[1].invoked /\ calls[1].failed /\ ~calls[1].auth_error
    /\ calls[2].invoked /\ calls[2].failed /\ calls[2].auth_error
    /\ ~calls[3].invoked

\* C27: two messages that build_threads places in one thread have the same
\* normalized subject
C27_ThreadWithinSubjectGroup ==
    Built => \A i, j \in MessageIds : SameThread(i, j) => SameSubjectGroup(i, j)

C27_Witness ==
    /\ Built /\ Len(messages) = 3
    /\ messages[1].subject # messages[2].subject
    /\ SameThread(1, 2)
    /\ ~SameSubjectGroup(1, 3)
    /\ Participants(messages[1]) = Participants(messages[3])
    /\ messages[1].date = messages[3].date
    /\ ~SameThread(1, 3)


(***************************************************************************)
(* Jobs                                                                    *)
(***************************************************************************)
Finished(job) == job.status \in {"completed", "failed"}

\* C23: zero messages is not an error: a job whose message list is empty
\* (nothing uploaded, or nothing the parser could read) does not fail for want
\* of messages; if it fails, a stage raised
C23_EmptyInputIsNotAnError ==
    \A j \in 1..Len(jobs) :
       (MessagesOf(uploads[j]) = 0 /\ jobs[j].status = "failed")
          => jobs[j].error = <<StageError>>

\* C28: in every state that get_job / get_report_path can observe, a job
\* whose report path is set has status completed
C28_ReportPathOnlyWhenCompleted ==
    \A j \in 1..Len(jobs) :
       get_report_path(jobs, j) # None => get_job(jobs, j)[1].status = "completed"

StatusMoves ==
    { <<"queued", "processing">>, <<"processing", "completed">>,
      <<"processing", "failed">> }

\* C29: the status of a job only moves queued -> processing -> completed or
\* failed; a finished job keeps its status, step, progress and error; the
\* progress of a job never decreases
C29_StatusOnlyMovesForward ==
    [][ \A j \in 1..Len(jobs) :
          LET before == jobs[j]
              after  == jobs'[j]
          IN  /\ after.status = before.status
                 \/ <<before.status, after.status>> \in StatusMoves
              /\ Finished(before) =>
                    /\ after.status = before.status /\ after.step = before.step
                    /\ after.progress = before.progress /\ after.error = before.error
              /\ after.progress >= before.progress ]_vars

C29_Witness ==
    /\ Len(jobs) = 2
    /\ jobs[1].status = "completed" /\ jobs[1].progress = 100
    /\ jobs[2].status = "failed" /\ jobs[2].progress = 100
    /\ jobs[2].error = <<StageError>>

\* C30: every job that create_job registered eventually has status completed
\* or failed, also when writing its input files fails
C30_EveryJobFinishes ==
    \A j \in 1..MaxJobs :
       [](Len(jobs) >= j => <>(Len(jobs) >= j /\ Finished(jobs[j])))


(***************************************************************************)
(* Attachments                                                             *)
(***************************************************************************)
\* a name that denotes a direct child of the folder it is joined to
DirectChild(name) ==
    /\ name \notin {<<>>, <<".">>, <<".", ".">>}
    /\ \A i \in 1..Len(name) : name[i] \notin {"/", "\\"}

\* C24: every _save_attachment call with non-empty data writes exactly one
\* file, a direct child of the category folder named by the sanitized
\* basename, and raises stats['total_attachments'] by exactly 1
C24_OneFileNamedBySanitizedBasename ==
    \A i \in 1..Len(saves) :
       saves[i].data =>
          /\ saves[i].written = <<safe_attachment_filename(saves[i].filename)>>
          /\ DirectChild(saves[i].written[1])
          /\ saves[i].counted = 1

\* the text before the first occurrence of a separator
Before(s, sep) ==
    LET at == {i \in 1..Len(s) : s[i] = sep}
    IN  IF at = {} THEN s ELSE SubSeq(s, 1, SetMin(at) - 1)

FolderOf(k) ==
    {f \in 1..Len(attachment_folders) :
        attachment_folders[f].category_id = report_categories[k].category_id}

\* C25: for the k-th category, the report heading is "4.k <name>", and if the
\* category has attachments it has one folder, whose name starts with the same
\* section number "4.k" followed by "_" and the sanitized category name, also
\* when earlier categories have no attachments; a category without
\* attachments has no folder
C25_FolderCarriesSectionNumber ==
    gpc = "done" =>
       \A k \in 1..Len(report_categories) :
          LET c == report_categories[k]
              section == <<"4", ".">> \o DecimalDigits(k)
          IN  /\ headings[k] = section \o <<" ">> \o c.name
              /\ Len(c.attachments) = 0 => FolderOf(k) = {}
              /\ Len(c.attachments) > 0 =>
                    /\ Cardinality(FolderOf(k)) = 1
                    /\ \A f \in FolderOf(k) :
                          /\ Before(attachment_folders[f].name, "_") = section
                          /\ Before(headings[k], " ") = section
                          /\ attachment_folders[f].name =
                                section \o <<"_">> \o sanitize_filename(c.name, FolderNameLen)

C25_Witness ==
    /\ gpc = "done" /\ Len(report_categories) = 2
    /\ Len(report_categories[1].attachments) = 0
    /\ Len(report_categories[2].attachments) > 0
    /\ Len(attachment_folders) = 1
    /\ Before(attachment_folders[1].name, "_") = <<"4", ".", "2">>
    /\ Before(headings[2], " ") = <<"4", ".", "2">>
    /\ attachment_folders[1].files # {}


(***************************************************************************)
(* Keywords                                                                *)
(***************************************************************************)
\* the lowercased alphanumeric tokens of the text that have at least three
\* characters and are not stopwords
CountedTokens(bodies) ==
    SelectSeq(FindAllWords(LowerStr(AllText(bodies))),
              LAMBDA w : Len(w) >= 3 /\ w \notin stop_words)

\* C21: _extract_keywords counts every lowercased alphanumeric token of
\* length >= 3 that is not a stopword and returns the topN most frequent of
\* them, each once, the more frequent first; empty or whitespace-only text
\* yields the empty sequence
C21_KeywordsAreFrequentTokens ==
    kpc = "done" =>
       LET tokens == CountedTokens(kw_bodies)
           words  == SeqRange(tokens)
           found  == SeqRange(kw_result)
       IN  /\ found \subseteq words
           /\ Cardinality(found) = Len(kw_result)
           /\ Len(kw_result) = IF Cardinality(words) < KeywordsTopN
                               THEN Cardinality(words) ELSE KeywordsTopN
           /\ \A w \in found : \A v \in words \ found :
                 CountOf(tokens, w) >= CountOf(tokens, v)
           /\ \A i, j \in 1..Len(kw_result) :
                 i < j => CountOf(tokens, kw_result[i]) >= CountOf(tokens, kw_result[j])
           /\ Strip(AllText(kw_bodies)) = <<>> => kw_result = <<>>

====
